---- MODULE Spec2Model ----
(***************************************************************************)
(* A model of the go-mcts search driver: the tree of NodeBase values, the  *)
(* Limiter, the search goroutines started by SearchMultiThreaded and the   *)
(* host thread that calls the public API (SearchMultiThreaded, Stop,       *)
(* context cancellation, Synchronize, MakeMove, Reset).                    *)
(*                                                                         *)
(* Nodes are named by their structural path (the child indices from the    *)
(* first root of the tree object to the node).  The domain is a small      *)
(* deterministic game: the first move is forced (one legal move), every    *)
(* later position has Branch moves 1..Branch, and the game is over after   *)
(* MaxPly moves.  Rollout values are milli-units (0, 500, 1000), the unit  *)
(* of NodeStats.q.  The scores of UCB1.Select, the win rates of BestChild  *)
(* and the values Q() and AddQ() pass on are float64 values, computed bit  *)
(* for bit (binary64, round to nearest even).  mcts.wg is a sync.WaitGroup *)
(* with its counter, its parked Wait calls and its misuse panics.          *)
(*                                                                         *)
(* Two smaller specifications exercise one object on its own: SpecStats,   *)
(* one NodeStats with every atomic operation of AddVvl, AddQ and GetVvl as *)
(* a step, and SpecLimiter, a Limiter with a clock and calls of Reset, Ok,  *)
(* EvaluateStopReason, SetStop, SetContext, SetLimits and cancellation.    *)
(*                                                                         *)
(* UCB1.Select and NodeStats.GetVvl are followed load by load: every       *)
(* atomic load of a counter is a step of its own, and the other goroutines *)
(* run between two loads.                                                  *)
(*                                                                         *)
(* Cps (a wall-clock statistic) is not modelled.                           *)
(***************************************************************************)
EXTENDS Integers, Sequences, FiniteSets, TLC

\* ------------------------------------------------------------------ bounds
Branch == 2
MaxPly == 2
MaxMoves == 1
MaxSearches == 2
MaxIters == 4
FewIters == 2
LiveIters == 3
SetterIters == 1
MaxSets == 1
MaxGoroutines == 3
SearchThreads == 2
CyclesLimit == 1
MaxInterval == 2
MaxListenerCycles == 6
MemWorkers == 2
MaxChildren == 2
SearchByteSize == 8
StatCallers == 2
MaxStatIters == 2
MaxStatSets == 1
MaxStatMerges == 1
MaxCounter == 1
MaxClock == 1
DepthLimit == 1
NodesLimit == 1
MovetimeLimit == 1
ByteSizeLimit == 2
NegativeBytes == 2

\* ------------------------------------------------------- program constants
VirtualLoss == 2
mainThreadId == 0
CanExpandFlag == 0
ExpandingMask == 1
ExpandedMask == 2
TerminalMask == 4
StopNone == 0
StopInterrupt == 1
StopMovetime == 2
StopMemory == 4
StopDepth == 8
StopCycles == 16
\* math.MaxUint32 and math.MaxInt stand for "no limit"; the model uses the
\* largest integer of the checker in their place.
DefaultNodeLimit == 2147483647
DefaultCyclesLimit == 2147483647
DefaultDepthLimit == 2147483647
DefaultMovetimeLimit == -1
DefaultByteSizeLimit == -1
\* the nodesize given to NewLimiter: the bytes of one node
nodeSize == 2

\* ------------------------------------------------------------- the domain
StoreDepth == MaxPly + MaxMoves
Moves == 1..Branch
Pos == UNION { [1..k -> Moves] : k \in 0..StoreDepth }

\* Position.IsTerminated of the modelled game
IsTerminated(gp) == Len(gp) >= MaxPly
\* the number of legal moves of a position
MovesAt(gp) == IF IsTerminated(gp) THEN 0 ELSE IF Len(gp) = 0 THEN 1 ELSE Branch

\* GameOperations.Traverse / BackTraverse on the move history of an ops object
Traverse(gp, m) == Append(gp, m)
BackTraverse(gp) == IF Len(gp) = 0 THEN gp ELSE SubSeq(gp, 1, Len(gp) - 1)
RECURSIVE BackTraverseN(_, _)
BackTraverseN(gp, k) == IF k = 0 THEN gp ELSE BackTraverseN(BackTraverse(gp), k - 1)

\* GameOperations.Rollout: result for the player to move at gp, in milli-units
Rollout(gp) == IF Len(gp) = 0 THEN 500 ELSE IF gp[Len(gp)] = 1 THEN 1000 ELSE 0

\* --------------------------------------------------------------- the tree
TreeIds == 0..(MaxGoroutines + 1)
Canon == 0
Spare == MaxGoroutines + 1
NilRef == [t |-> -1, p |-> <<>>]
Ref(t, p) == [t |-> t, p |-> p]

\* newRootNode / NewBaseNode: a node with zero statistics.  parent tells what
\* Parent points at: "nil"; "slot", the node one level up; "copy", a heap copy of
\* that node sharing its Stats (made by Clone); "other", a node of another tree,
\* from which far nodes lead up to that tree's root.
TerminalFlag(terminal) == IF terminal THEN TerminalMask ELSE 0
NewNode(terminal, par) ==
  [n |-> 0, vl |-> 0, q |-> 0, flags |-> TerminalFlag(terminal), kids |-> 0,
   parent |-> par, far |-> 0]
BlankNode == NewNode(FALSE, "nil")
BlankTree == [p \in Pos |-> BlankNode]

HasBit(f, m) == (f \div m) % 2 = 1
Terminal(T, r) == HasBit(T[r.t][r.p].flags, TerminalMask)
Expanded(T, r) == HasBit(T[r.t][r.p].flags, ExpandedMask)
Expanding(T, r) == HasBit(T[r.t][r.p].flags, ExpandingMask)
\* the compare-and-swap of CanExpand succeeds exactly on flags = 0
CanExpandCas(T, r) == T[r.t][r.p].flags = CanExpandFlag
SetFlags(T, r, f) == [T EXCEPT ![r.t][r.p].flags = f]
CancelExpanding(T, r) == SetFlags(T, r, CanExpandFlag)
FinishExpanding(T, r) == SetFlags(T, r, ExpandedMask)

IsPrefix(p, s) == Len(p) <= Len(s) /\ SubSeq(s, 1, Len(p)) = p
StrictBelow(p, s) == Len(p) < Len(s) /\ IsPrefix(p, s)
Child(r, i) == Ref(r.t, Append(r.p, i))
Front(p) == SubSeq(p, 1, Len(p) - 1)

\* NodeBase.Parent.  HeapCopies names the copies Clone leaves on the heap,
\* WorkerTree the nodes of a worker's tree that only such a pointer still
\* reaches: neither is a slot of the arena the node is in.
HeapCopies == 0 - 2
WorkerTree == 0 - 3
ParentOf(T, r) ==
  LET par == T[r.t][r.p].parent
  IN IF par = "nil" THEN NilRef
     ELSE IF par = "slot" THEN Ref(r.t, Front(r.p))
     ELSE IF par = "copy" THEN Ref(HeapCopies, Front(r.p))
     ELSE Ref(WorkerTree, Front(r.p))
\* the slot that holds the Stats of the node Parent points at: a heap copy
\* shares the Stats pointer of the slot it was copied from, the statistics of
\* the far nodes of a worker's tree are in no arena
StatsOfParent(T, r) ==
  LET up == ParentOf(T, r)
  IN IF up.t = HeapCopies THEN Ref(r.t, up.p)
     ELSE IF up.t = WorkerTree THEN NilRef
     ELSE up

\* NodeStats
\* AddVvl is two atomic additions: virtualLoss first, then n
AddLoss(T, r, dvl) == [T EXCEPT ![r.t][r.p].vl = @ + dvl]
AddVisitsTwice(T, r, dn) == [T EXCEPT ![r.t][r.p].n = @ + 2 * dn]
AddVisits(T, r, dn) == [T EXCEPT ![r.t][r.p].n = @ + dn]
AddVvl(T, r, dn, dvl) == AddVisits(AddLoss(T, r, dvl), r, dn)
AddQ(T, r, res) == [T EXCEPT ![r.t][r.p].q = @ + res]
\* GetVvl returns only once vl <= n; callers wait while it does not
VvlReadable(T, r) == T[r.t][r.p].vl <= T[r.t][r.p].n
RealVisits(T, r) == T[r.t][r.p].n - T[r.t][r.p].vl

\* GameOperations.ExpandNode on node r with the ops object at game position gp:
\* a fresh Children array, one NewBaseNode per legal move, none for a finished game
ExpandCount(gp) == MovesAt(gp)
ExpandNode(T, r, gp) ==
  [T EXCEPT ![r.t] = [s \in Pos |->
     IF s = r.p THEN [T[r.t][s] EXCEPT !.kids = ExpandCount(gp)]
     ELSE IF StrictBelow(r.p, s)
       THEN IF Len(s) = Len(r.p) + 1 /\ s[Len(s)] <= ExpandCount(gp)
              THEN NewNode(IsTerminated(Traverse(gp, s[Len(s)])), "slot")
              ELSE BlankNode
       ELSE T[r.t][s]]]

\* countTreeNodes
RECURSIVE countTreeNodes(_, _)
RECURSIVE countChildren(_, _, _)
countChildren(T, r, i) ==
  IF i > T[r.t][r.p].kids THEN 0
  ELSE (IF T[r.t][Append(r.p, i)].kids > 0 THEN countTreeNodes(T, Child(r, i)) ELSE 1)
       + countChildren(T, r, i + 1)
countTreeNodes(T, r) ==
  1 + (IF Len(r.p) < StoreDepth THEN countChildren(T, r, 1) ELSE 0)

\* ------------------------------------------------------ the UCB1 strategy
\* The UCB1 score of Select, Stats.Q() and the result AddQ is given are
\* float64.  The model computes them as IEEE-754 binary64 does, every
\* operation rounded to the nearest value, ties to even, and none fused with
\* another: a finite value is a sign, a significand of MantBits bits and an
\* exponent.  Values stay inside the normal range of binary64 for operands
\* made from 32-bit counters, so neither subnormal numbers nor overflow occur.
\* natural numbers of any size: sequences of LimbBits-bit limbs, the least
\* significant first
LimbBits == 13
LimbBase == 8192
\* the binary64 significand has MantBits bits, held in MantLimbs limbs
MantBits == 53
MantLimbs == 5
\* bits kept below the last place of a result until it is rounded
GuardBits == 3
WideLimbs == 10
Limb(x, i) == IF i >= 1 /\ i <= Len(x) THEN x[i] ELSE 0
RECURSIVE BigCarry(_, _, _)
BigCarry(x, i, carry) ==
  IF i > Len(x) THEN x
  ELSE BigCarry([x EXCEPT ![i] = (x[i] + carry) % LimbBase], i + 1,
                (x[i] + carry) \div LimbBase)
BigZero(n) == BigCarry([i \in 1..n |-> 0], 1, 0)
BigOfInt(k, n) == BigCarry([i \in 1..n |-> IF i = 1 THEN k ELSE 0], 1, 0)
BigAdd(x, y) == BigCarry([i \in 1..Len(x) |-> x[i] + Limb(y, i)], 1, 0)
BigSub(x, y) == BigCarry([i \in 1..Len(x) |-> x[i] - Limb(y, i)], 1, 0)
RECURSIVE BigCmpFrom(_, _, _)
BigCmpFrom(x, y, i) ==
  IF i = 0 THEN 0
  ELSE IF Limb(x, i) > Limb(y, i) THEN 1
  ELSE IF Limb(x, i) < Limb(y, i) THEN 0 - 1
  ELSE BigCmpFrom(x, y, i - 1)
Longer(x, y) == IF Len(x) >= Len(y) THEN Len(x) ELSE Len(y)
BigCmp(x, y) == BigCmpFrom(x, y, Longer(x, y))
BigIsZero(x) == \A i \in 1..Len(x) : x[i] = 0
\* x * 2^s in n limbs; floor(x / 2^s)
LimbOf(b) == b \div LimbBits
BitOf(b) == b % LimbBits
BigShl(x, s, n) ==
  BigCarry([i \in 1..n |-> Limb(x, i - LimbOf(s)) * (2 ^ BitOf(s))], 1, 0)
BigShr(x, s, n) ==
  BigCarry([i \in 1..n |-> (Limb(x, i + LimbOf(s)) \div (2 ^ BitOf(s)))
                            + ((Limb(x, i + LimbOf(s) + 1) % (2 ^ BitOf(s)))
                                 * (2 ^ (LimbBits - BitOf(s))))], 1, 0)
BigBit(x, b) == (Limb(x, LimbOf(b) + 1) \div (2 ^ BitOf(b))) % 2
RECURSIVE IntBitLen(_)
IntBitLen(k) == IF k = 0 THEN 0 ELSE 1 + IntBitLen(k \div 2)
RECURSIVE BigBitLenFrom(_, _)
BigBitLenFrom(x, i) ==
  IF i = 0 THEN 0
  ELSE IF Limb(x, i) # 0 THEN LimbBits * (i - 1) + IntBitLen(Limb(x, i))
  ELSE BigBitLenFrom(x, i - 1)
BigBitLen(x) == BigBitLenFrom(x, Len(x))
\* the low s bits of x are all zero
BigLowZero(x, s) == BigShl(BigShr(x, s, Len(x)), s, Len(x)) = x
RECURSIVE BigConv(_, _, _, _)
BigConv(x, y, k, i) ==
  IF i > Len(x) THEN 0 ELSE (x[i] * Limb(y, k + 1 - i)) + BigConv(x, y, k, i + 1)
BigMul(x, y) == BigCarry([k \in 1..(Len(x) + Len(y)) |-> BigConv(x, y, k, 1)], 1, 0)
\* the last bit of a quotient or root that is cut off: 1 when a remainder is
\* left, so that rounding sees the result is not exact
Sticky(r) == IF BigIsZero(r) THEN 0 ELSE 1
\* 2 * floor(x * 2^QuoBits / d) + Sticky for x and d of MantBits bits: long
\* division in base LimbBase of x * 2^(QuoBits + NormShift) by d * 2^NormShift,
\* whose leading limb is full, one quotient limb a step
NormShift == LimbBits * MantLimbs - MantBits
QuoBits == LimbBits * MantLimbs - NormShift + GuardBits
BigMulInt(x, k) == BigCarry([i \in 1..(Len(x) + 1) |-> Limb(x, i) * k], 1, 0)
\* the quotient limb of r by d: the guess from the leading limbs, lowered
\* until its product with d fits in r
QuoGuess(r, d) ==
  IF (Limb(r, MantLimbs + 1) * LimbBase + Limb(r, MantLimbs)) \div Limb(d, MantLimbs) >= LimbBase
    THEN LimbBase - 1
    ELSE (Limb(r, MantLimbs + 1) * LimbBase + Limb(r, MantLimbs)) \div Limb(d, MantLimbs)
RECURSIVE QuoDigit(_, _, _)
QuoDigit(r, d, q) == IF BigCmp(BigMulInt(d, q), r) > 0 THEN QuoDigit(r, d, q - 1) ELSE q
RECURSIVE BigQuoFrom(_, _, _, _)
QuoTake(r, d, quo, k, q) ==
  BigQuoFrom(BigSub(r, BigMulInt(d, q)), d,
             BigAdd(BigShl(quo, LimbBits, MantLimbs), BigOfInt(q, 1)), k - 1)
BigQuoFrom(rem, d, quo, k) ==
  IF k = 0 THEN BigAdd(BigAdd(quo, quo), BigOfInt(Sticky(rem), 1))
  ELSE QuoTake(BigShl(rem, LimbBits, MantLimbs + 1), d, quo, k,
               QuoDigit(BigShl(rem, LimbBits, MantLimbs + 1), d,
                        QuoGuess(BigShl(rem, LimbBits, MantLimbs + 1), d)))
BigQuo(x, d) ==
  BigQuoFrom(BigShl(x, GuardBits, MantLimbs), BigShl(d, NormShift, MantLimbs),
             BigZero(MantLimbs), MantLimbs)
\* 2 * floor(sqrt(x)) + Sticky: one bit of the root a step, b the exponent of
\* the power of four tried
RECURSIVE BigSqrtFrom(_, _, _)
BigSqrtFrom(x, res, b) ==
  IF b < 0 THEN BigAdd(BigAdd(res, res), BigOfInt(Sticky(x), 1))
  ELSE IF BigCmp(x, BigAdd(res, BigShl(BigOfInt(1, 1), b, Len(x)))) >= 0
         THEN BigSqrtFrom(BigSub(x, BigAdd(res, BigShl(BigOfInt(1, 1), b, Len(x)))),
                          BigAdd(BigShr(res, 1, Len(x)), BigShl(BigOfInt(1, 1), b, Len(x))), b - 2)
         ELSE BigSqrtFrom(x, BigShr(res, 1, Len(x)), b - 2)
BigSqrt(x) == BigSqrtFrom(x, BigZero(Len(x)), 2 * ((BigBitLen(x) - 1) \div 2))

\* a float64: NaN, an infinity, or (-1)^s * m * 2^e with m of exactly MantBits
\* bits (zero: m = 0, e = 0)
Num(s, e, m) == [k |-> "num", s |-> s, e |-> e, m |-> m]
NaN == [k |-> "nan", s |-> 0, e |-> 0, m |-> BigZero(MantLimbs)]
Inf(s) == [k |-> "inf", s |-> s, e |-> 0, m |-> BigZero(MantLimbs)]
Zero(s) == Num(s, 0, BigZero(MantLimbs))
IsZero(a) == a.k = "num" /\ BigIsZero(a.m)
Neg(a) == IF a.k = "nan" THEN a ELSE [a EXCEPT !.s = 1 - a.s]
\* the float64 nearest m * 2^e, ties to even
RoundUp(m, sh) ==
  /\ BigBit(m, sh - 1) = 1
  /\ ~BigLowZero(m, sh - 1) \/ BigBit(m, sh) = 1
Carried(s, e, m) ==
  IF BigBitLen(m) > MantBits THEN Num(s, e + 1, BigShr(m, 1, MantLimbs)) ELSE Num(s, e, m)
Rounded(s, e, m, sh) ==
  IF sh <= 0 THEN Num(s, e + sh, BigShl(m, 0 - sh, MantLimbs))
  ELSE IF RoundUp(m, sh)
         THEN Carried(s, e + sh, BigAdd(BigShr(m, sh, MantLimbs), BigOfInt(1, 1)))
         ELSE Num(s, e + sh, BigShr(m, sh, MantLimbs))
Round(s, e, m) ==
  IF BigIsZero(m) THEN Zero(s) ELSE Rounded(s, e, m, BigBitLen(m) - MantBits)
\* float64(n) of an integer
Abs(n) == IF n < 0 THEN 0 - n ELSE n
Float64(n) == Round(IF n < 0 THEN 1 ELSE 0, 0, BigOfInt(Abs(n), MantLimbs))
\* a * b
F64Mul(a, b) ==
  IF a.k = "nan" \/ b.k = "nan" THEN NaN
  ELSE IF a.k = "inf" \/ b.k = "inf"
         THEN (IF IsZero(a) \/ IsZero(b) THEN NaN ELSE Inf((a.s + b.s) % 2))
  ELSE Round((a.s + b.s) % 2, a.e + b.e, BigMul(a.m, b.m))
\* a / b
F64Quo(a, b) ==
  IF a.k = "nan" \/ b.k = "nan" THEN NaN
  ELSE IF a.k = "inf" THEN (IF b.k = "inf" THEN NaN ELSE Inf((a.s + b.s) % 2))
  ELSE IF b.k = "inf" THEN Zero((a.s + b.s) % 2)
  ELSE IF IsZero(b) THEN (IF IsZero(a) THEN NaN ELSE Inf((a.s + b.s) % 2))
  ELSE IF IsZero(a) THEN Zero((a.s + b.s) % 2)
  ELSE Round((a.s + b.s) % 2, a.e - b.e - QuoBits - 1, BigQuo(a.m, b.m))
\* a + b for finite a, b # 0 with a.e >= b.e: exact when the exponents are
\* within AlignBits of each other, else b only decides the rounding
AlignBits == 60
MagSum(s, e, x, y) == Round(s, e, BigAdd(x, y))
MagDiff(s, e, x, y) ==
  IF BigCmp(x, y) >= 0 THEN Round(s, e, BigSub(x, y))
  ELSE Round(1 - s, e, BigSub(y, x))
AddAligned(a, b, x, y) ==
  IF a.s = b.s THEN MagSum(a.s, b.e, x, y) ELSE MagDiff(a.s, b.e, x, y)
AddOrdered(a, b) ==
  IF a.e - b.e <= AlignBits
    THEN AddAligned(a, b, BigShl(a.m, a.e - b.e, WideLimbs), BigShl(b.m, 0, WideLimbs))
    ELSE AddAligned(a, [b EXCEPT !.e = a.e - GuardBits],
                    BigShl(a.m, GuardBits, WideLimbs), BigOfInt(1, WideLimbs))
F64Add(a, b) ==
  IF a.k = "nan" \/ b.k = "nan" THEN NaN
  ELSE IF a.k = "inf" THEN (IF b.k = "inf" /\ a.s # b.s THEN NaN ELSE a)
  ELSE IF b.k = "inf" THEN b
  ELSE IF IsZero(a) THEN (IF IsZero(b) THEN Zero(IF a.s = 1 /\ b.s = 1 THEN 1 ELSE 0) ELSE b)
  ELSE IF IsZero(b) THEN a
  ELSE IF a.s # b.s /\ a.e = b.e /\ a.m = b.m THEN Zero(0)
  ELSE IF a.e >= b.e THEN AddOrdered(a, b) ELSE AddOrdered(b, a)
F64Sub(a, b) == F64Add(a, Neg(b))
\* a < b, a > b, a == b
MagCmp(a, b) ==
  IF IsZero(a) THEN (IF IsZero(b) THEN 0 ELSE 0 - 1)
  ELSE IF IsZero(b) THEN 1
  ELSE IF a.e # b.e THEN (IF a.e > b.e THEN 1 ELSE 0 - 1)
  ELSE BigCmp(a.m, b.m)
F64Cmp(a, b) ==
  IF a.k = "inf" THEN (IF b.k = "inf" /\ a.s = b.s THEN 0 ELSE IF a.s = 1 THEN 0 - 1 ELSE 1)
  ELSE IF b.k = "inf" THEN (IF b.s = 1 THEN 1 ELSE 0 - 1)
  ELSE IF IsZero(a) /\ IsZero(b) THEN 0
  ELSE IF a.s # b.s THEN (IF a.s = 1 THEN 0 - 1 ELSE 1)
  ELSE IF a.s = 1 THEN MagCmp(b, a) ELSE MagCmp(a, b)
F64Greater(a, b) == a.k # "nan" /\ b.k # "nan" /\ F64Cmp(a, b) > 0
F64Less(a, b) == a.k # "nan" /\ b.k # "nan" /\ F64Cmp(a, b) < 0
F64Equal(a, b) == a.k # "nan" /\ b.k # "nan" /\ F64Cmp(a, b) = 0
\* math.Sqrt
SqrtShift(e) == IF e % 2 = 0 THEN 58 ELSE 57
Sqrt(a) ==
  IF a.k = "nan" THEN NaN
  ELSE IF IsZero(a) THEN a
  ELSE IF a.s = 1 THEN NaN
  ELSE IF a.k = "inf" THEN a
  ELSE Round(0, (a.e - SqrtShift(a.e)) \div 2 - 1, BigSqrt(BigShl(a.m, SqrtShift(a.e), WideLimbs)))
\* uint64(x) and int32(x) of a float64 x >= 0 below 2^31: the fraction is cut
\* off
RECURSIVE BigToInt(_, _)
BigToInt(x, i) == IF i > Len(x) THEN 0 ELSE x[i] + LimbBase * BigToInt(x, i + 1)
Uint64(a) ==
  IF IsZero(a) THEN 0
  ELSE IF a.e >= 0 THEN BigToInt(BigShl(a.m, a.e, MantLimbs), 1)
  ELSE BigToInt(BigShr(a.m, 0 - a.e, 3), 1)
Int32(a) == Uint64(a)
\* math.Log, as the portable math.log computes it: x = 2^k * (1 + f) with
\* sqrt(2)/2 < 1 + f < sqrt(2), s = f / (2 + f), and a polynomial in s
Ln2Hi == Num(0, 0 - 53, <<0, 5888, 4287, 3164, 1>>)
Ln2Lo == Num(0, 0 - 85, <<7286, 3017, 7117, 5235, 1>>)
L1 == Num(0, 0 - 53, <<5523, 2730, 5461, 2730, 1>>)
L2 == Num(0, 0 - 54, <<6660, 3263, 1638, 4915, 1>>)
L3 == Num(0, 0 - 54, <<4953, 276, 2341, 1170, 1>>)
L4 == Num(0, 0 - 55, <<6319, 3187, 4423, 6371, 1>>)
L5 == Num(0, 0 - 55, <<990, 5720, 6437, 3724, 1>>)
L6 == Num(0, 0 - 55, <<1695, 966, 628, 1844, 1>>)
L7 == Num(0, 0 - 55, <<4676, 6642, 1207, 1506, 1>>)
HalfSqrt2 == Num(0, 0 - 53, <<7117, 5113, 1945, 3393, 1>>)
F64Half == Num(0, 0 - 53, <<0, 0, 0, 0, 1>>)
F64One == Num(0, 0 - 52, <<0, 0, 0, 0, 1>>)
F64Two == Num(0, 0 - 51, <<0, 0, 0, 0, 1>>)
LogT1(s2, s4) ==
  F64Mul(s2, F64Add(L1, F64Mul(s4, F64Add(L3, F64Mul(s4, F64Add(L5, F64Mul(s4, L7)))))))
LogT2(s4) == F64Mul(s4, F64Add(L2, F64Mul(s4, F64Add(L4, F64Mul(s4, L6)))))
LogR(f, k, s, hfsq, R) ==
  F64Sub(F64Mul(k, Ln2Hi),
         F64Sub(F64Sub(hfsq, F64Add(F64Mul(s, F64Add(hfsq, R)), F64Mul(k, Ln2Lo))), f))
LogS4(f, k, s, hfsq, s2, s4) == LogR(f, k, s, hfsq, F64Add(LogT1(s2, s4), LogT2(s4)))
LogS2(f, k, s, hfsq, s2) == LogS4(f, k, s, hfsq, s2, F64Mul(s2, s2))
LogS(f, k, s, hfsq) == LogS2(f, k, s, hfsq, F64Mul(s, s))
LogOf(f, k) == LogS(f, k, F64Quo(f, F64Add(F64Two, f)), F64Mul(F64Mul(F64Half, f), f))
\* math.Frexp of a finite x # 0: the fraction in [1/2, 1) and the exponent
FrexpFrac(x) == [x EXCEPT !.e = 0 - MantBits]
FrexpExp(x) == x.e + MantBits
Log(x) ==
  IF x.k = "nan" THEN NaN
  ELSE IF IsZero(x) THEN Inf(1)
  ELSE IF x.s = 1 THEN NaN
  ELSE IF x.k = "inf" THEN x
  ELSE IF F64Less(FrexpFrac(x), HalfSqrt2)
         THEN LogOf(F64Sub(F64Mul(FrexpFrac(x), F64Two), F64One), Float64(FrexpExp(x) - 1))
         ELSE LogOf(F64Sub(FrexpFrac(x), F64One), Float64(FrexpExp(x)))
F64Zero == Zero(0)
F64Max(a, b) ==
  IF a.k = "nan" \/ b.k = "nan" THEN NaN ELSE IF F64Less(a, b) THEN b ELSE a
\* the constant 1e3 of Q, AvgQ and AddQ
F64Thousand == Float64(1000)
\* NodeStats.Q(): Result(q) / 1e3
Q(q) == F64Quo(Float64(q), F64Thousand)
\* the amount AddQ(result) adds to q: uint64(result * 1e3)
AddQMilli(result) == Uint64(F64Mul(result, F64Thousand))

\* ExplorationParam, default 0.75, and the strategy NewUCB1(c) builds; the
\* other values NewUCB1 and SetExplorationParam are given (0.4 and -0.5)
ExplorationParam == Num(0, 0 - 53, <<0, 0, 0, 4096, 1>>)
LowExploration == Num(0, 0 - 54, <<6554, 3276, 1638, 4915, 1>>)
NegExploration == Num(1, 0 - 53, <<0, 0, 0, 0, 1>>)
NewUCB1(c) == [ExplorationParam |-> c]
ExplorationArgs == {ExplorationParam, LowExploration, NegExploration}

\* ucb1 of a child: float64(wins)/float64(visits) +
\* ExplorationParam*math.Sqrt(lnParentVisits/float64(visits)), for a child with
\* visits v and q under a parent whose math.Log(float64(N)) is lnN, and the
\* exploration parameter c
WinsPerVisit(q, v) == F64Quo(Q(q), Float64(v))
Explore(lnN, v) == Sqrt(F64Quo(lnN, Float64(v)))
Ucb1Sum(exploit, c, explore) == F64Add(exploit, F64Mul(c, explore))
\* The scores of the visit counts up to TableVisits, of the q a node of v
\* visits has from rollouts of 0, 0.5 and 1, and of the exploration
\* parameters a strategy holds, are computed once
TableVisits == 6
HalfMilli == 500
Tabulated(f, n) == SubSeq(f, 1, n)
ExplorationValues == <<ExplorationParam, LowExploration, F64Zero>>
LnTable == Tabulated([N \in 1..TableVisits |-> Log(Float64(N))], TableVisits)
ExploreRow(N) == Tabulated([v \in 1..TableVisits |-> Explore(LnTable[N], v)], TableVisits)
ExploreTable == Tabulated([N \in 1..TableVisits |-> ExploreRow(N)], TableVisits)
ExploitRow(v) ==
  Tabulated([k \in 1..(2 * v + 1) |-> WinsPerVisit(HalfMilli * (k - 1), v)], 2 * v + 1)
ExploitTable == Tabulated([v \in 1..TableVisits |-> ExploitRow(v)], TableVisits)
\* float64(Stats.Q()) / float64(visits)
Exploit(q, v) ==
  IF v \in 1..TableVisits /\ q % HalfMilli = 0 /\ q \div HalfMilli <= 2 * v
    THEN ExploitTable[v][q \div HalfMilli + 1]
    ELSE WinsPerVisit(q, v)
Ucb1Row(N, v, c) ==
  Tabulated([k \in 1..(2 * v + 1) |-> Ucb1Sum(ExploitTable[v][k], c, ExploreTable[N][v])],
            2 * v + 1)
Ucb1Rows(N, c) == Tabulated([v \in 1..TableVisits |-> Ucb1Row(N, v, c)], TableVisits)
Ucb1Plane(c) == Tabulated([N \in 1..TableVisits |-> Ucb1Rows(N, c)], TableVisits)
Ucb1Table == Tabulated([j \in 1..Len(ExplorationValues) |-> Ucb1Plane(ExplorationValues[j])],
                       Len(ExplorationValues))
InTable(N, v, q, c) ==
  /\ N \in 1..TableVisits /\ v \in 1..TableVisits
  /\ q % HalfMilli = 0 /\ q \div HalfMilli <= 2 * v
  /\ \E j \in 1..Len(ExplorationValues) : ExplorationValues[j] = c
TableIndex(c) == CHOOSE j \in 1..Len(ExplorationValues) : ExplorationValues[j] = c
Ucb1(N, v, q, c) ==
  IF InTable(N, v, q, c) THEN Ucb1Table[TableIndex(c)][N][v][q \div HalfMilli + 1]
  ELSE Ucb1Sum(Exploit(q, v), c, Explore(Log(Float64(N)), v))

\* UCB1.Select: max starts at float64(-1), index at the first child.  The
\* locals of a call are <<N, i, index, max>>: the parent's visits as loaded
\* for lnParentVisits, the child the loop is at, and the best child so far
\* with its score.  SelectParent stands for the Terminal parent, returned
\* itself.
SelectParent == 0 - 1
SelectLocals(N) == <<N, 1, 1, Float64(0 - 1)>>
\* "if ucb1 > max { max = ucb1; index = i }", and i++
SelectBetter(loc, ucb1) ==
  IF F64Greater(ucb1, loc[4]) THEN <<loc[1], loc[2] + 1, loc[2], ucb1>>
  ELSE <<loc[1], loc[2] + 1, loc[3], loc[4]>>

\* ------------------------------------------------------------ the Limiter
Limits(inf, cyc, nth) ==
  [Infinite |-> inf, Cycles |-> cyc, Depth |-> DefaultDepthLimit,
   ByteSize |-> DefaultByteSizeLimit, Movetime |-> DefaultMovetimeLimit, NThreads |-> nth,
   Nodes |-> DefaultNodeLimit]
\* DefaultLimits and the setters of Limits
DefaultLimits == Limits(TRUE, DefaultCyclesLimit, 1)
SetDepth(lm, depth) == [lm EXCEPT !.Depth = depth, !.Infinite = FALSE]
SetNodes(lm, nodes) == [lm EXCEPT !.Nodes = nodes, !.Infinite = FALSE]
SetCycles(lm, visits) == [lm EXCEPT !.Cycles = visits, !.Infinite = FALSE]
SetMovetime(lm, movetime) == [lm EXCEPT !.Movetime = movetime, !.Infinite = FALSE]
SetByteSize(lm, bytesize) == [lm EXCEPT !.ByteSize = bytesize, !.Infinite = FALSE]
SetInfinite(lm, infinite) == [lm EXCEPT !.Infinite = infinite]
\* the listener after StatsListener().OnCycle(f).SetCycleInterval(n), and after
\* OnCycle(f) alone
ListenerEvery(n) == [onCycle |-> TRUE, nCycles |-> IF n >= 1 THEN n ELSE 1]
ListenerUnset == [onCycle |-> TRUE, nCycles |-> 0]
toMask(val, offset) == IF val THEN 2 ^ offset ELSE 0
stopMask == 1
timeMask == 2
memoryMask == 4
depthMask == 8
cyclesMask == 16

\* _Timer: its duration and the time since its start, in milliseconds
NewTimer == [duration |-> -1, since |-> 0]
TimerMovetime(t, movetime) == [t EXCEPT !.duration = IF movetime < 0 THEN -1 ELSE movetime]
TimerReset(t) == [t EXCEPT !.since = 0]
TimerIsSet(t) == t.duration # -1
TimerIsEnd(t) == t.duration > 0 /\ t.since >= t.duration

\* NewLimiter
NewLimiter ==
  [stop |-> FALSE, expand |-> TRUE, reason |-> StopNone, maxSize |-> 0, areSet |-> 0,
   timer |-> NewTimer]

\* Limiter.Stop(): the stop flag after polling the context
StopPoll(l, c) == l.stop \/ c = "cancelled"

\* uint32(x) / d for an int64 x the checker can hold and d >= 2: the low 32
\* bits of x, divided half-word by half-word (a negative x wraps to x + 2^32)
HalfWord == 65536
Uint32Quo(x, d) ==
  LET lo == x % HalfWord
      hi == (x \div HalfWord) % HalfWord
  IN (hi \div d) * HalfWord + ((hi % d) * HalfWord + lo) \div d

\* Limiter.Reset
LimiterReset(l, lm) ==
  [stop |-> FALSE, expand |-> TRUE, reason |-> StopNone,
   timer |-> TimerReset(TimerMovetime(l.timer, lm.Movetime)),
   maxSize |-> IF lm.ByteSize # DefaultByteSizeLimit THEN Uint32Quo(lm.ByteSize, nodeSize)
               ELSE DefaultNodeLimit,
   areSet |-> toMask(TimerIsSet(TimerMovetime(l.timer, lm.Movetime)), 1)
              + toMask(lm.ByteSize # DefaultByteSizeLimit, 2)
              + toMask(lm.Depth # DefaultDepthLimit, 3) + toMask(lm.Cycles # DefaultCyclesLimit, 4)]

\* the mask of the bounds, whatever Limits.Infinite says
LimitMaskOfBounds(l, lm, stop, sz, depth, cyc) ==
  toMask(stop, 0) + toMask(TimerIsEnd(l.timer), 1) + toMask(l.maxSize <= sz, 2)
  + toMask(lm.Depth <= depth, 3) + toMask(lm.Cycles <= cyc, 4)
\* Limiter.LimitMask, with the result of Stop() passed in
LimitMask(l, lm, stop, sz, depth, cyc) ==
  IF lm.Infinite THEN toMask(stop, 0)
  ELSE toMask(stop, 0) + toMask(TimerIsEnd(l.timer), 1) + toMask(l.maxSize <= sz, 2)
       + toMask(lm.Depth <= depth, 3) + toMask(lm.Cycles <= cyc, 4)

\* Limiter.OkMask: the memory limit only closes the expand latch when a time
\* or cycle limit is set as well
MemoryDeferred(l, lm, stop, sz, depth, cyc) ==
  /\ HasBit(l.areSet, memoryMask)
  /\ (HasBit(l.areSet, timeMask) \/ HasBit(l.areSet, cyclesMask))
  /\ HasBit(LimitMask(l, lm, stop, sz, depth, cyc), memoryMask)
OkMask(l, lm, stop, sz, depth, cyc) ==
  LimitMask(l, lm, stop, sz, depth, cyc)
  - (IF MemoryDeferred(l, lm, stop, sz, depth, cyc) THEN memoryMask ELSE 0)
\* the Limiter after a call of OkMask (stop flag polled, expand latch)
AfterOkMask(l, lm, c, sz, depth, cyc) ==
  [l EXCEPT !.stop = StopPoll(l, c),
            !.expand = @ /\ ~MemoryDeferred(l, lm, StopPoll(l, c), sz, depth, cyc)]
\* OkMask's expand.Store(false), with the value Stop() returned passed in
ExpandLatch(l, lm, stop, sz, depth, cyc) ==
  [l EXCEPT !.expand = @ /\ ~MemoryDeferred(l, lm, stop, sz, depth, cyc)]
\* Limiter.EvaluateStopReason: the mask bits are the StopReason bits
EvaluateStopReason(l, lm, c, sz, depth, cyc) ==
  [AfterOkMask(l, lm, c, sz, depth, cyc) EXCEPT
     !.reason = OkMask(l, lm, StopPoll(l, c), sz, depth, cyc)]

\* ------------------------------------------------------------- the state
VARIABLES
  tree,        \* the node arenas: the tree of the MCTS object, one clone per goroutine, one detached tree
  rootPos,     \* where mcts.Root is in the tree of the MCTS object
  opsPos,      \* the game position of mcts.ops
  lim,         \* Limiter: stop, expand, reason, maxSize, areSetMask
  ctx,         \* the Limiter's context: "background" (context.Background(), never
               \* done), "live" (a context that can be cancelled) or "cancelled"
  limits,      \* Limiter.limits
  policy,      \* multithreadPolicy: "tree" or "root"
  size, cycles, maxdepth, merged, collisionCount,   \* TreeStats and MCTS counters
  wg,          \* mcts.wg: counter, parked Wait calls, wake-ups
  roots,       \* mcts.roots: the root of each worker, <<>> when nil
  gor,         \* the search goroutines
  host,        \* the thread that calls the API
  iters,       \* iterations started so far, by all searches
  searches, moves, resets,   \* numbers of API calls made
  obs,         \* per SearchMultiThreaded call: listener invocations, stop requests,
               \* Root.Stats.N() at the call
  expandCalls, \* the ExpandNode calls made: by which code, on a node with which flags
  panicked,    \* the process died in a panic
  ns,          \* one NodeStats with the threads that call AddVvl and GetVvl on it
  lt,          \* the calls made on a Limiter used on its own: the last call and its result
  ls,          \* the StatsListener of a tree and the on-cycle checks of worker 0 on it
  mw,          \* the workers of a search under a memory bound: where each is in its iteration
  quota,       \* what the behaviour may still do: iterations to start, calls of
               \* SearchMultiThreaded, MakeMove and Reset, setters to call, and the
               \* goroutines it may have at a time
  strategy     \* the UCB1 strategy of the tree: its ExplorationParam

vars == <<tree, rootPos, opsPos, lim, ctx, limits, policy, size, cycles, maxdepth, merged,
          collisionCount, wg, roots, gor, host, iters, searches, moves, resets, obs,
          expandCalls, panicked, ns, lt, ls, mw, quota, strategy>>

Gids == 1..MaxGoroutines
\* the main goroutine of a search inside mergeResults: arr is the slice header
\* "range mcts.roots[1:]" took (shared while mcts.roots still is that slice),
\* i the index the loop is at, other the element read, st the mergeResult
\* calls in progress, innermost first
NoMerge == [arr |-> <<>>, shared |-> FALSE, i |-> 0, other |-> NilRef, st |-> <<>>]
\* a goroutine: pc is where it is in Search; args the counters a call of
\* Limiter.Ok was given
IdleG == [pc |-> "idle", tid |-> 0, gen |-> 0, root |-> NilRef, node |-> NilRef,
          depth |-> 0, result |-> 0, v |-> 0, opos |-> <<>>, opos0 |-> <<>>,
          dn |-> 0, ret |-> "idle", args |-> <<>>, mg |-> NoMerge]
\* the host thread: pc is where it is inside an API call; move and pos are the
\* arguments of MakeMove and Reset; count and depth the values MakeMove and
\* Reset have computed and not yet stored; threads, n and next the locals of
\* SearchMultiThreaded and its loops; arena the clone Root.Clone(nil) is
\* building; walk the Clone or countTreeNodes calls in progress, innermost first
IdleHost == [pc |-> "idle", move |-> 0, pos |-> <<>>, count |-> 0, depth |-> 0,
             threads |-> 0, n |-> 0, next |-> 0, arena |-> 0 - 1, walk |-> <<>>]
NoObs == [launched |-> FALSE, stop |-> 0, stopBy |-> {}, depthBy |-> {}, depthTop |-> 0,
          cycleBy |-> {}, stopAsked |-> FALSE, rootN |-> 0]
ExpandCall(site, T, r) == [by |-> site, flags |-> T[r.t][r.p].flags]

RootRef == Ref(Canon, rootPos)
Live(g) == gor[g].pc # "idle"
AnyLive == \E g \in Gids : Live(g)
\* the positions of a goroutine inside the loop of Search, after the loop up
\* to wg.Done(), and from the release of a wg.Done() to the end of wg.Wait()
ExitPcs == {"exit", "reason"}
JoinPcs == {"release", "join", "sema", "should"}
SelectPcs == {"sn", "sn2", "svl", "sq"}
LeafPcs == {"rvn", "rvvl"}
LoopPcs == {"ok", "okload", "sel", "vl", "vvl", "expand", "finish", "wait", "spin", "pick",
            "depth", "store", "bp", "addq", "count"} \cup SelectPcs \cup LeafPcs
\* where the main goroutine of a search is inside mergeResults
MergePcs == {"mroots", "mnext", "mcall", "mwalk", "mdone", "clear"}
InLoop(g) == gor[g].pc \in LoopPcs
\* the arguments given to SetCycleInterval
IntervalArgs == (0 - 1)..MaxInterval
\* a stop request (Stop(), cancellation) noted for every search with a worker in its loop
AskStop(o) ==
  [s \in 1..MaxSearches |->
     IF \E g \in Gids : InLoop(g) /\ gor[g].gen = s THEN [o[s] EXCEPT !.stopAsked = TRUE] ELSE o[s]]

\* sync.WaitGroup: v is the counter, w the number of Wait calls parked on the
\* semaphore, sema the wake-ups posted and not yet taken
NewWaitGroup == [v |-> 0, w |-> 0, sema |-> 0]
\* Add(delta): the atomic add on the state
WaitGroupAdd(s, delta) == [s EXCEPT !.v = @ + delta]
\* Add(delta) after its add panics on a negative counter and, "Add called
\* concurrently with Wait", when the counter rises from 0 past a parked Wait
WaitGroupMisuse(s, delta) == s.v < 0 \/ (s.w # 0 /\ delta > 0 /\ s.v = delta)
\* the Add that brings the counter to 0 with Wait calls parked goes on to
\* release them
WaitGroupLast(s) == s.v = 0 /\ s.w > 0
\* that release: the state is cleared, every parked Wait is posted a wake-up
WaitGroupRelease(s) == [v |-> 0, w |-> 0, sema |-> s.sema + s.w]
\* Wait() on a counter above 0 parks
WaitGroupPark(s) == [s EXCEPT !.w = @ + 1]
\* a parked Wait takes its wake-up; a state that is not 0 by then is the panic
\* "WaitGroup is reused before previous Wait has returned"
WaitGroupTake(s) == [s EXCEPT !.sema = @ - 1]
WaitGroupReused(s) == s.v # 0 \/ s.w # 0

\* NewMTCS on game position gp: the root is marked Expanded, then expanded
NewMTCSTree(gp) ==
  ExpandNode(FinishExpanding([t \in TreeIds |-> BlankTree], Ref(Canon, <<>>)), Ref(Canon, <<>>), gp)

InitMCTS(m) ==
  /\ policy = m[1] /\ limits = m[2] /\ opsPos = m[3]
  /\ tree = NewMTCSTree(m[3])
  /\ size = 1 + ExpandCount(m[3])
  /\ rootPos = <<>>
  /\ lim = NewLimiter
  /\ ctx = m[4]
  /\ cycles = 0
  /\ maxdepth = 0
  /\ merged = FALSE
  /\ collisionCount = 0
  /\ wg = NewWaitGroup
  /\ roots = <<>>
  /\ gor = [g \in Gids |-> IdleG]
  /\ host = IdleHost
  /\ iters = 0
  /\ searches = 0
  /\ moves = 0
  /\ resets = 0
  /\ obs = [s \in 1..MaxSearches |-> NoObs]
  /\ expandCalls = {[by |-> "NewMTCS", flags |-> ExpandedMask]}
  /\ panicked = FALSE

\* a NodeStats nobody calls yet: of the root (Parent == nil) or of another
\* node, in a tree searched with the strategy UCB1 or RAVE
NoCaller == [pc |-> "idle", it |-> 0]
NodeStats(n0, isRoot, strat) ==
  [n |-> n0, virtualLoss |-> 0, q |-> 0, root |-> isRoot, strategy |-> strat,
   w |-> [c \in 1..StatCallers |-> NoCaller],
   rd |-> [pc |-> "n", visits |-> 0, virtualLoss |-> 0, done |-> 0],
   ret |-> <<>>, retried |-> FALSE,
   set |-> [pc |-> "idle", visits |-> 0, virtualLoss |-> 0, left |-> 0],
   mg |-> [pc |-> "idle", visits |-> 0, q |-> 0, left |-> 0],
   fault |-> FALSE]

\* a Limiter nothing was called on
NoLimiterCall ==
  [op |-> "new", taken |-> FALSE, infinite |-> TRUE, asked |-> FALSE, memHit |-> FALSE,
   ok |-> TRUE, size |-> 0, depth |-> 0, cycles |-> 0]

\* the StatsListener NewMTCS builds, &StatsListener[T]{}: no callback, nCycles
\* the zero value
NewMTCSListener == [onCycle |-> FALSE, nCycles |-> 0]
\* NewStatsListener(): StatsListener[T]{nCycles: 1}
NewStatsListener == [onCycle |-> FALSE, nCycles |-> 1]
\* the listener of a new tree before any search: n is Root.Stats.N(), invoked
\* the number of onCycle invocations, fault an integer division by zero
NoListenerRun == [listener |-> NewMTCSListener, n |-> 0, invoked |-> 0, fault |-> FALSE]
\* no search under a memory bound has been started
NoMemoryRun == [started |-> FALSE, w |-> [c \in 1..MemWorkers |-> "idle"]]
\* nothing left to do for the search driver
Quota(i, s, m, r, c, t, g) ==
  [iters |-> i, searches |-> s, moves |-> m, resets |-> r, calls |-> c, sets |-> t,
   goroutines |-> g]
NoQuota == Quota(0, 0, 0, 0, 0, 0, 0)

\* the configurations a behaviour starts from: the multithread policy, the
\* limits (DefaultLimits().SetThreads(k), one of them after SetCycles), the
\* game position the tree is constructed on, the context (the one NewLimiter
\* sets, or one given with SetContext that can be cancelled), the listener and
\* the strategy; every configuration comes with the numbers of iterations, of
\* calls of SearchMultiThreaded, MakeMove and Reset, of setter calls and of
\* goroutines at a time its behaviours are followed for
OneThread == Limits(TRUE, DefaultCyclesLimit, 1)
Threads == Limits(TRUE, DefaultCyclesLimit, SearchThreads)
CyclesBound == Limits(FALSE, CyclesLimit, 1)
Modes ==
  { <<"tree", OneThread, <<>>, "background", ListenerEvery(1), Quota(FewIters, 2, 0, 0, 2, 0, MaxGoroutines), NewUCB1(ExplorationParam)>>,
    <<"tree", OneThread, <<>>, "background", ListenerEvery(1), Quota(FewIters, 1, 1, 1, 2, 0, MaxGoroutines), NewUCB1(ExplorationParam)>>,
    <<"tree", Threads, <<>>, "background", ListenerEvery(1), Quota(FewIters, 2, 1, 1, 2, 0, MaxGoroutines), NewUCB1(ExplorationParam)>>,
    <<"root", Threads, <<>>, "background", ListenerEvery(1), Quota(FewIters, 2, 0, 0, 2, 0, SearchThreads), NewUCB1(ExplorationParam)>>,
    <<"root", Threads, <<>>, "background", ListenerEvery(1), Quota(1, 2, 1, 1, 2, 0, MaxGoroutines), NewUCB1(ExplorationParam)>>,
    <<"tree", Threads, <<>>, "live", ListenerEvery(1), Quota(LiveIters, 1, 0, 0, 1, 0, MaxGoroutines), NewUCB1(ExplorationParam)>>,
    <<"root", Threads, <<>>, "live", ListenerEvery(1), Quota(MaxIters, 1, 0, 0, 1, 0, MaxGoroutines), NewUCB1(ExplorationParam)>>,
    <<"tree", OneThread, <<1>>, "live", ListenerEvery(1), Quota(MaxIters, 1, 0, 0, 1, 0, MaxGoroutines), NewUCB1(ExplorationParam)>>,
    <<"tree", OneThread, <<1>>, "background", ListenerEvery(1), Quota(MaxIters, 1, 0, 0, 1, 0, MaxGoroutines), NewUCB1(LowExploration)>>,
    <<"tree", Threads, <<1>>, "background", ListenerEvery(1), Quota(SetterIters, 1, 1, 1, 2, MaxSets, MaxGoroutines), NewUCB1(ExplorationParam)>>,
    <<"tree", CyclesBound, <<1>>, "background", ListenerEvery(1), Quota(1, 2, 1, 0, 3, 0, MaxGoroutines), NewUCB1(ExplorationParam)>>,
    <<"tree", CyclesBound, <<1>>, "live", ListenerEvery(MaxInterval), Quota(FewIters, 2, 1, 1, 2, 0, MaxGoroutines), NewUCB1(ExplorationParam)>>,
    <<"tree", CyclesBound, <<1>>, "live", ListenerUnset, Quota(FewIters, 2, 1, 1, 2, 0, MaxGoroutines), NewUCB1(ExplorationParam)>> }

Init ==
  /\ \E m \in Modes :
       /\ InitMCTS(m)
       /\ ls = [listener |-> m[5], n |-> 0, invoked |-> 0, fault |-> FALSE]
       /\ quota = m[6]
       /\ strategy = m[7]
  /\ ns = NodeStats(0, FALSE, "UCB1")
  /\ lt = NoLimiterCall
  /\ mw = NoMemoryRun


\* mergeResult(root, other).  base is the depth of the root of other's tree.
\* Adoption copies other's Children slice: the copied children keep the Parent
\* they had (other, in the worker's tree); the model follows the copies as
\* nodes of their own.
Rebase(p, q, s) == q \o SubSeq(s, Len(p) + 1, Len(s))
Adopt(T, root, other, base) ==
  [T EXCEPT ![root.t] = [s \in Pos |->
     IF s = root.p THEN [T[root.t][s] EXCEPT !.kids = T[other.t][other.p].kids]
     ELSE IF /\ StrictBelow(root.p, s)
             /\ Rebase(root.p, other.p, s) \in Pos
             /\ T[other.t][Rebase(root.p, other.p, s)].parent # "nil"
       THEN IF Len(s) = Len(root.p) + 1
              THEN [T[other.t][Rebase(root.p, other.p, s)] EXCEPT
                      !.parent = "other", !.far = Len(other.p) - base + 1]
              ELSE T[other.t][Rebase(root.p, other.p, s)]
       ELSE T[root.t][s]]]
\* shouldMerge: the root-parallel policy with more than one thread
shouldMerge == policy = "root" /\ limits.NThreads > 1

\* --------------------------------------------------- the search goroutines
Panic == panicked' = TRUE

\* the clone under construction by the host
HostArena == IF host.pc \in {"ss_clone", "ss_store"} THEN host.arena ELSE 0 - 1
\* the arenas once more without the nodes no pointer of the program reaches:
\* with no goroutine left, only the subtree of Root, the clones in roots and
\* the clone the host is building
Collect(T, rp, rs, anyLive) ==
  IF anyLive THEN T
  ELSE [t \in TreeIds |->
          IF t = Canon THEN [s \in Pos |-> IF IsPrefix(rp, s) THEN T[t][s] ELSE BlankNode]
          ELSE IF (\E i \in 1..Len(rs) : rs[i].t = t) \/ t = HostArena THEN T[t]
          ELSE BlankTree]

Max(a, b) == IF a >= b THEN a ELSE b
WithObs(s, field, val) == [obs EXCEPT ![s] = [@ EXCEPT ![field] = val]]

\* Limiter.Ok after Stop() has returned stop: OkMask on the counters the call
\* was given, the expand latch, and the branch of the loop
OkReturns(g, stop, sz, depth, cyc) ==
  LET ok == OkMask(lim, limits, stop, sz, depth, cyc) = 0
  IN /\ ok => quota.iters > 0
     /\ lim' = ExpandLatch(lim, limits, stop, sz, depth, cyc)
     /\ IF ok
          THEN /\ gor' = [gor EXCEPT ![g].pc = "sel", ![g].node = gor[g].root,
                                     ![g].depth = 0, ![g].args = <<>>]
               /\ iters' = iters + 1
               /\ quota' = [quota EXCEPT !.iters = @ - 1]
          ELSE /\ gor' = [gor EXCEPT ![g].pc = "exit", ![g].args = <<>>]
               /\ UNCHANGED <<iters, quota>>

\* Search: the loop condition Limiter.Ok(Size, MaxDepth, Cycles).  Stop()
\* polls the context; when it is cancelled, stop.Store(true) is one step and
\* the stop.Load() that Ok goes on with another (WOkLoad)
WOk(g) ==
  LET w == gor[g] IN
  /\ ~panicked /\ w.pc = "ok"
  /\ IF ctx = "cancelled"
       THEN /\ lim' = [lim EXCEPT !.stop = TRUE]
            /\ gor' = [gor EXCEPT ![g].pc = "okload", ![g].args = <<size, maxdepth, cycles>>]
            /\ UNCHANGED <<iters, quota>>
       ELSE OkReturns(g, lim.stop, size, maxdepth, cycles)
  /\ UNCHANGED <<tree, rootPos, opsPos, ctx, limits, policy, size, cycles, maxdepth, merged,
                 collisionCount, wg, roots, host, searches, moves, resets, obs, expandCalls,
                 panicked, ns, lt, ls, mw, strategy>>

\* Limiter.Stop() after its store: return l.stop.Load(), and the rest of Ok
WOkLoad(g) ==
  LET w == gor[g] IN
  /\ ~panicked /\ w.pc = "okload"
  /\ OkReturns(g, lim.stop, w.args[1], w.args[2], w.args[3])
  /\ UNCHANGED <<tree, rootPos, opsPos, ctx, limits, policy, size, cycles, maxdepth, merged,
                 collisionCount, wg, roots, host, searches, moves, resets, obs, expandCalls,
                 panicked, ns, lt, ls, mw, strategy>>

\* Selection, "for node.Expanded()": the child UCB1.Select returned (or the
\* Terminal parent itself) becomes the node, then Traverse and depth++
NodeMove(r) == IF Len(r.p) = 0 THEN 1 ELSE r.p[Len(r.p)]
WSelectChild(g, w, i) ==
  gor' = [gor EXCEPT ![g].pc = "vl", ![g].ret = "sel", ![g].args = <<>>,
                     ![g].node = IF i = SelectParent THEN w.node ELSE Child(w.node, i),
                     ![g].opos = Traverse(w.opos, IF i = SelectParent
                                                    THEN NodeMove(w.node) ELSE i),
                     ![g].depth = w.depth + 1]

\* Selection on an Expanded node calls UCB1.Select: the Terminal test, and the
\* load of parent.Stats.N() for lnParentVisits
WSelect(g) ==
  LET w == gor[g] IN
  /\ ~panicked /\ w.pc = "sel" /\ Expanded(tree, w.node)
  /\ IF Terminal(tree, w.node)
       THEN WSelectChild(g, w, SelectParent)
       ELSE gor' = [gor EXCEPT ![g].pc = "sn",
                               ![g].args = SelectLocals(tree[w.node.t][w.node.p].n)]
  /\ UNCHANGED <<tree, rootPos, opsPos, lim, ctx, limits, policy, size, cycles, maxdepth,
                 merged, collisionCount, wg, roots, host, iters, searches, moves, resets, obs,
                 expandCalls, panicked, ns, lt, ls, mw, quota, strategy>>

\* UCB1.Select, the loop test "i < len(parent.Children)".  Past the last
\* child: "return &parent.Children[index]", which indexes an empty slice on an
\* Expanded node without children.  Else child = &parent.Children[i] and the
\* first load of GetVvl, atomic.LoadInt32(&stats.n)
WSelectN(g) ==
  LET w == gor[g]
      kids == tree[w.node.t][w.node.p].kids
  IN /\ ~panicked /\ w.pc = "sn"
     /\ IF w.args[2] > kids
          THEN IF w.args[3] > kids THEN Panic /\ UNCHANGED gor
               ELSE WSelectChild(g, w, w.args[3]) /\ UNCHANGED panicked
          ELSE /\ gor' = [gor EXCEPT ![g].pc = "svl",
                                     ![g].args = Append(w.args, tree[w.node.t][Append(w.node.p, w.args[2])].n)]
               /\ UNCHANGED panicked
     /\ UNCHANGED <<tree, rootPos, opsPos, lim, ctx, limits, policy, size, cycles, maxdepth,
                    merged, collisionCount, wg, roots, host, iters, searches, moves, resets, obs,
                    expandCalls, ns, lt, ls, mw, quota, strategy>>

\* GetVvl of the child, a later round of its loop: n is loaded again
WSelectRetry(g) ==
  LET w == gor[g] IN
  /\ ~panicked /\ w.pc = "sn2"
  /\ gor' = [gor EXCEPT ![g].pc = "svl",
                        ![g].args = Append(w.args, tree[w.node.t][Append(w.node.p, w.args[2])].n)]
  /\ UNCHANGED <<tree, rootPos, opsPos, lim, ctx, limits, policy, size, cycles, maxdepth,
                 merged, collisionCount, wg, roots, host, iters, searches, moves, resets, obs,
                 expandCalls, panicked, ns, lt, ls, mw, quota, strategy>>

\* GetVvl of the child, atomic.LoadInt32(&stats.virtualLoss): another round
\* while virtualLoss > visits; then "if actualVisits == 0 { return child }"
WSelectLoss(g) ==
  LET w == gor[g]
      vl == tree[w.node.t][Append(w.node.p, w.args[2])].vl
  IN /\ ~panicked /\ w.pc = "svl"
     /\ IF vl > w.args[5]
          THEN gor' = [gor EXCEPT ![g].pc = "sn2", ![g].args = SubSeq(w.args, 1, 4)]
          ELSE IF w.args[5] - vl = 0
                 THEN WSelectChild(g, w, w.args[2])
                 ELSE gor' = [gor EXCEPT ![g].pc = "sq"]
     /\ UNCHANGED <<tree, rootPos, opsPos, lim, ctx, limits, policy, size, cycles, maxdepth,
                    merged, collisionCount, wg, roots, host, iters, searches, moves, resets, obs,
                    expandCalls, panicked, ns, lt, ls, mw, quota, strategy>>

\* wins = child.Stats.Q(), the score of the child on the values loaded, and
\* "if ucb1 > max"
WSelectQ(g) ==
  LET w == gor[g]
      q == tree[w.node.t][Append(w.node.p, w.args[2])].q
  IN /\ ~panicked /\ w.pc = "sq"
     /\ gor' = [gor EXCEPT ![g].pc = "sn",
                           ![g].args = SelectBetter(w.args, Ucb1(w.args[1], w.args[5], q,
                                                                strategy.ExplorationParam))]
     /\ UNCHANGED <<tree, rootPos, opsPos, lim, ctx, limits, policy, size, cycles, maxdepth,
                    merged, collisionCount, wg, roots, host, iters, searches, moves, resets, obs,
                    expandCalls, panicked, ns, lt, ls, mw, quota, strategy>>

\* Selection, "Apply virtual loss": AddVvl(VirtualLoss, VirtualLoss), first
\* statement, atomic.AddInt32(&stats.virtualLoss, virtualLoss)
WAddLoss(g) ==
  LET w == gor[g] IN
  /\ ~panicked /\ w.pc = "vl"
  /\ tree' = AddLoss(tree, w.node, VirtualLoss)
  /\ gor' = [gor EXCEPT ![g].pc = "vvl", ![g].dn = VirtualLoss]
  /\ UNCHANGED <<rootPos, opsPos, lim, ctx, limits, policy, size, cycles, maxdepth, merged,
                 collisionCount, wg, roots, host, iters, searches, moves, resets, obs,
                 expandCalls, panicked, ns, lt, ls, mw, quota, strategy>>

\* AddVvl, second statement: atomic.AddInt32(&stats.n, visits); the caller
\* (Selection or Backpropagate) goes on
WAddVisits(g) ==
  LET w == gor[g] IN
  /\ ~panicked /\ w.pc = "vvl"
  /\ tree' = AddVisits(tree, w.node, w.dn)
  /\ gor' = [gor EXCEPT ![g].pc = w.ret, ![g].dn = 0, ![g].ret = "idle"]
  /\ UNCHANGED <<rootPos, opsPos, lim, ctx, limits, policy, size, cycles, maxdepth, merged,
                 collisionCount, wg, roots, host, iters, searches, moves, resets, obs,
                 expandCalls, panicked, ns, lt, ls, mw, quota, strategy>>

\* Selection, "for node.Expanded()" on a node that is not Expanded: the loop
\* ends and RealVisits() is called
WLeaf(g) ==
  LET w == gor[g] IN
  /\ ~panicked /\ w.pc = "sel" /\ ~Expanded(tree, w.node)
  /\ gor' = [gor EXCEPT ![g].pc = "rvn"]
  /\ UNCHANGED <<tree, rootPos, opsPos, lim, ctx, limits, policy, size, cycles, maxdepth, merged,
                 collisionCount, wg, roots, host, iters, searches, moves, resets, obs,
                 expandCalls, panicked, ns, lt, ls, mw, quota, strategy>>

\* RealVisits() is GetVvl: a round of its loop loads n
WRealVisitsN(g) ==
  LET w == gor[g] IN
  /\ ~panicked /\ w.pc = "rvn"
  /\ gor' = [gor EXCEPT ![g].pc = "rvvl", ![g].args = <<tree[w.node.t][w.node.p].n>>]
  /\ UNCHANGED <<tree, rootPos, opsPos, lim, ctx, limits, policy, size, cycles, maxdepth, merged,
                 collisionCount, wg, roots, host, iters, searches, moves, resets, obs,
                 expandCalls, panicked, ns, lt, ls, mw, quota, strategy>>

\* GetVvl loads virtualLoss and goes round again while virtualLoss > visits.
\* Then Selection at the leaf: RealVisits() > 0 && !Terminal(), then
\* Limiter.Expand() && node.CanExpand() (the compare-and-swap 0 -> Expanding)
WRealVisits(g) ==
  LET w == gor[g]
      vl == tree[w.node.t][w.node.p].vl
  IN /\ ~panicked /\ w.pc = "rvvl"
     /\ IF vl > w.args[1]
          THEN /\ gor' = [gor EXCEPT ![g].pc = "rvn", ![g].args = <<>>]
               /\ UNCHANGED tree
          ELSE IF w.args[1] - vl > 0 /\ ~Terminal(tree, w.node)
            THEN IF lim.expand /\ CanExpandCas(tree, w.node)
                   THEN /\ tree' = SetFlags(tree, w.node, ExpandingMask)
                        /\ gor' = [gor EXCEPT ![g].pc = "expand", ![g].args = <<>>]
                   ELSE /\ gor' = [gor EXCEPT ![g].pc = "wait", ![g].args = <<>>]
                        /\ UNCHANGED tree
            ELSE /\ gor' = [gor EXCEPT ![g].pc = "depth", ![g].args = <<>>]
                 /\ UNCHANGED tree
     /\ UNCHANGED <<rootPos, opsPos, lim, ctx, limits, policy, size, cycles, maxdepth, merged,
                    collisionCount, wg, roots, host, iters, searches, moves, resets, obs,
                    expandCalls, panicked, ns, lt, ls, mw, quota, strategy>>

\* ops.ExpandNode(node) by the goroutine that won the compare-and-swap
WExpand(g) ==
  LET w == gor[g] IN
  /\ ~panicked /\ w.pc = "expand"
  /\ Len(w.node.p) < StoreDepth
  /\ tree' = ExpandNode(tree, w.node, w.opos)
  /\ expandCalls' = expandCalls \cup {ExpandCall("Selection", tree, w.node)}
  /\ gor' = [gor EXCEPT ![g].pc = "finish"]
  /\ UNCHANGED <<rootPos, opsPos, lim, ctx, limits, policy, size, cycles, maxdepth, merged,
                 collisionCount, wg, roots, host, iters, searches, moves, resets, obs, panicked,
                 ns, lt, ls, mw, quota, strategy>>

\* CancelExpanding when no child was made, else FinishExpanding and size.Add(v)
WFinish(g) ==
  LET w == gor[g] IN
  /\ ~panicked /\ w.pc = "finish"
  /\ IF tree[w.node.t][w.node.p].kids = 0
       THEN tree' = CancelExpanding(tree, w.node) /\ UNCHANGED size
       ELSE tree' = FinishExpanding(tree, w.node) /\ size' = size + ExpandCount(w.opos)
  /\ gor' = [gor EXCEPT ![g].pc = "wait"]
  /\ UNCHANGED <<rootPos, opsPos, lim, ctx, limits, policy, cycles, maxdepth, merged,
                 collisionCount, wg, roots, host, iters, searches, moves, resets, obs,
                 expandCalls, panicked, ns, lt, ls, mw, quota, strategy>>

\* "for node.Expanding()": the first failed test counts a collision
WWait(g) ==
  LET w == gor[g] IN
  /\ ~panicked /\ w.pc = "wait"
  /\ IF Expanding(tree, w.node)
       THEN /\ collisionCount' = collisionCount + 1
            /\ gor' = [gor EXCEPT ![g].pc = "spin"]
       ELSE /\ gor' = [gor EXCEPT ![g].pc = "pick"]
            /\ UNCHANGED collisionCount
  /\ UNCHANGED <<tree, rootPos, opsPos, lim, ctx, limits, policy, size, cycles, maxdepth, merged,
                 wg, roots, host, iters, searches, moves, resets, obs, expandCalls, panicked, ns,
                 lt, ls, mw, quota, strategy>>

\* the later rounds of "for node.Expanding()"
WSpin(g) ==
  LET w == gor[g] IN
  /\ ~panicked /\ w.pc = "spin"
  /\ ~Expanding(tree, w.node)
  /\ gor' = [gor EXCEPT ![g].pc = "pick"]
  /\ UNCHANGED <<tree, rootPos, opsPos, lim, ctx, limits, policy, size, cycles, maxdepth, merged,
                 collisionCount, wg, roots, host, iters, searches, moves, resets, obs,
                 expandCalls, panicked, ns, lt, ls, mw, quota, strategy>>

\* "if node.Expanded()": step to a random child, Traverse, depth++; the
\* modulus by len(Children) divides by zero on an Expanded node without children
WPick(g) ==
  LET w == gor[g] IN
  /\ ~panicked /\ w.pc = "pick"
  /\ IF ~Expanded(tree, w.node)
       THEN gor' = [gor EXCEPT ![g].pc = "depth"] /\ UNCHANGED panicked
       ELSE IF tree[w.node.t][w.node.p].kids = 0
         THEN Panic /\ UNCHANGED gor
         ELSE \E i \in 1..tree[w.node.t][w.node.p].kids :
                /\ gor' = [gor EXCEPT ![g].pc = "vl", ![g].ret = "depth",
                                      ![g].node = Child(w.node, i),
                                      ![g].opos = Traverse(w.opos, i),
                                      ![g].depth = w.depth + 1]
                /\ UNCHANGED panicked
  /\ UNCHANGED <<tree, rootPos, opsPos, lim, ctx, limits, policy, size, cycles, maxdepth, merged,
                 collisionCount, wg, roots, host, iters, searches, moves, resets, obs,
                 expandCalls, ns, lt, ls, mw, quota, strategy>>

\* Selection, "Set the 'max depth'": maxdepth.CompareAndSwap(depth-1, depth);
\* the goroutine that loses goes on to ops.Rollout()
WDepth(g) ==
  LET w == gor[g]
      won == maxdepth = w.depth - 1
  IN /\ ~panicked /\ w.pc = "depth"
     /\ maxdepth' = IF won THEN w.depth ELSE maxdepth
     /\ gor' = IF won THEN [gor EXCEPT ![g].pc = "store"]
               ELSE [gor EXCEPT ![g].pc = "bp", ![g].result = Rollout(w.opos),
                                ![g].v = Rollout(w.opos)]
     /\ UNCHANGED <<tree, rootPos, opsPos, lim, ctx, limits, policy, size, cycles, merged,
                    collisionCount, wg, roots, host, iters, searches, moves, resets, obs,
                    expandCalls, panicked, ns, lt, ls, mw, quota, strategy>>

\* Selection after a won compare-and-swap: maxdepth.Store(depth), onDepth for
\* depth > 1; then ops.Rollout()
WStore(g) ==
  LET w == gor[g] IN
  /\ ~panicked /\ w.pc = "store"
  /\ maxdepth' = w.depth
  /\ obs' = IF w.depth > 1
              THEN [obs EXCEPT ![w.gen] = [@ EXCEPT !.depthBy = @ \cup {w.tid},
                                                   !.depthTop = Max(@, w.depth)]]
              ELSE obs
  /\ gor' = [gor EXCEPT ![g].pc = "bp", ![g].result = Rollout(w.opos),
                        ![g].v = Rollout(w.opos)]
  /\ UNCHANGED <<tree, rootPos, opsPos, lim, ctx, limits, policy, size, cycles, merged,
                 collisionCount, wg, roots, host, iters, searches, moves, resets, expandCalls,
                 panicked, ns, lt, ls, mw, quota, strategy>>

\* Backpropagate, "switch the result": result = 1.0 - result, in milli-units
SameResult(result) == result
Flip(result) == 1000 - result

\* Backpropagate, one node, AddVvl's first statement: the virtual loss comes
\* off where Parent is not nil, AddVvl(1-VirtualLoss, -VirtualLoss); the root
\* gets AddVvl(1, 0)
WBackprop(g) ==
  LET w == gor[g]
      isRoot == ParentOf(tree, w.node) = NilRef
  IN /\ ~panicked /\ w.pc = "bp"
     /\ tree' = AddLoss(tree, w.node, IF isRoot THEN 0 ELSE 0 - VirtualLoss)
     /\ gor' = [gor EXCEPT ![g].pc = "vvl", ![g].ret = "addq",
                           ![g].dn = IF isRoot THEN 1 ELSE 1 - VirtualLoss]
     /\ UNCHANGED <<rootPos, opsPos, lim, ctx, limits, policy, size, cycles, maxdepth, merged,
                    collisionCount, wg, roots, host, iters, searches, moves, resets, obs,
                    expandCalls, panicked, ns, lt, ls, mw, quota, strategy>>

\* Backpropagate, one node, after AddVvl: the result is flipped and added,
\* node = node.Parent, ops.BackTraverse().  From a node whose Parent is in
\* another tree the walk goes on through far nodes of that tree, which nothing
\* else reaches; that part is taken in the same step.
WAddQ(g) ==
  LET w == gor[g]
      nd == tree[w.node.t][w.node.p]
      res == Flip(w.result)
      up == StatsOfParent(tree, w.node)
      far == IF nd.parent = "other" THEN nd.far ELSE 0
  IN /\ ~panicked /\ w.pc = "addq"
     /\ tree' = AddQ(tree, w.node, res)
     /\ gor' = [gor EXCEPT ![g].node = up,
                           ![g].result = IF far % 2 = 0 THEN res ELSE Flip(res),
                           ![g].opos = BackTraverseN(w.opos, 1 + far),
                           ![g].pc = IF up = NilRef THEN "count" ELSE "bp"]
     /\ UNCHANGED <<rootPos, opsPos, lim, ctx, limits, policy, size, cycles, maxdepth, merged,
                    collisionCount, wg, roots, host, iters, searches, moves, resets, obs,
                    expandCalls, panicked, ns, lt, ls, mw, quota, strategy>>

\* toListenerStats: the Cycles field handed to a callback, int(tree.Root.Stats.N())
ListenerCycles(T, rp) == T[Canon][rp].n

\* Search: cycles.Add(1) and the onCycle test of the main thread,
\* listener.onCycle != nil && Root.Stats.N() % int32(listener.nCycles) == 0;
\* the modulus by an interval of zero is an integer division by zero
OnCycleTested(tid) == tid = mainThreadId /\ ls.listener.onCycle
OnCycleDue(T, rp) == ListenerCycles(T, rp) % ls.listener.nCycles = 0
WCount(g) ==
  LET w == gor[g] IN
  /\ ~panicked /\ w.pc = "count"
  /\ cycles' = cycles + 1
  /\ IF OnCycleTested(w.tid) /\ ls.listener.nCycles = 0
       THEN Panic /\ UNCHANGED <<obs, gor>>
       ELSE /\ obs' = IF OnCycleTested(w.tid) /\ OnCycleDue(tree, rootPos)
                        THEN WithObs(w.gen, "cycleBy", obs[w.gen].cycleBy \cup {w.tid})
                        ELSE obs
            /\ gor' = [gor EXCEPT ![g].pc = "ok", ![g].depth = 0, ![g].result = 0, ![g].v = 0]
            /\ UNCHANGED panicked
  /\ UNCHANGED <<tree, rootPos, opsPos, lim, ctx, limits, policy, size, maxdepth, merged,
                 collisionCount, wg, roots, host, iters, searches, moves, resets, expandCalls,
                 ns, lt, ls, mw, quota, strategy>>

\* Search, "Make sure only 1 thread calls this": threadId == mainThreadId
AnyThread(tid) == TRUE
IsMainThread(tid) == tid = mainThreadId

\* Search after wg.Done(): worker 0 goes on to wg.Wait(), the others return
AfterDone(w) == IF IsMainThread(w.tid) THEN [w EXCEPT !.pc = "join", !.args = <<>>] ELSE IdleG
\* Search after EvaluateStopReason: Limiter.Stop(), onStop (main thread) and
\* the atomic add of wg.Done()
StopAndDone(g) ==
  LET w == gor[g]
      s == WaitGroupAdd(wg, 0 - 1)
      g2 == [gor EXCEPT ![g] = IF WaitGroupLast(s) THEN [w EXCEPT !.pc = "release", !.args = <<>>]
                               ELSE AfterDone(w)]
  IN /\ obs' = IF IsMainThread(w.tid)
                 THEN [obs EXCEPT ![w.gen] = [@ EXCEPT !.stop = @ + 1, !.stopBy = @ \cup {w.tid}]]
                 ELSE obs
     /\ wg' = s
     /\ panicked' = WaitGroupMisuse(s, 0 - 1)
     /\ gor' = g2
     /\ tree' = Collect(tree, rootPos, roots, \E h \in Gids : g2[h].pc # "idle")

\* Search after the loop.  Main thread: EvaluateStopReason up to its last
\* statement, the mask OkMask returns held in a local.  Other threads:
\* Limiter.Stop() and wg.Done()
WExit(g) ==
  LET w == gor[g] IN
  /\ ~panicked /\ w.pc = "exit"
  /\ IF w.tid = mainThreadId
       THEN /\ lim' = AfterOkMask(lim, limits, ctx, size, maxdepth, cycles)
            /\ gor' = [gor EXCEPT ![g].pc = "reason",
                                  ![g].args = <<OkMask(lim, limits, StopPoll(lim, ctx), size,
                                                       maxdepth, cycles)>>]
            /\ UNCHANGED <<obs, wg, panicked, tree>>
       ELSE /\ lim' = [lim EXCEPT !.stop = StopPoll(lim, ctx)]
            /\ StopAndDone(g)
  /\ UNCHANGED <<rootPos, opsPos, ctx, limits, policy, size, cycles, maxdepth, merged,
                 collisionCount, roots, host, iters, searches, moves, resets, expandCalls,
                 ns, lt, ls, mw, quota, strategy>>

\* Search, main thread: the last statement of EvaluateStopReason, l.reason =
\* reason, then Limiter.Stop(), onStop and wg.Done()
WReason(g) ==
  LET w == gor[g] IN
  /\ ~panicked /\ w.pc = "reason"
  /\ lim' = [lim EXCEPT !.reason = w.args[1], !.stop = StopPoll(lim, ctx)]
  /\ StopAndDone(g)
  /\ UNCHANGED <<rootPos, opsPos, ctx, limits, policy, size, cycles, maxdepth, merged,
                 collisionCount, roots, host, iters, searches, moves, resets, expandCalls,
                 ns, lt, ls, mw, quota, strategy>>

\* wg.Done() that brought the counter to 0 with Wait calls parked: the state
\* is compared with the one the add left ("WaitGroup misuse" when it has
\* changed), cleared, and the parked calls are released
WRelease(g) ==
  LET w == gor[g]
      g2 == [gor EXCEPT ![g] = AfterDone(w)]
  IN /\ ~panicked /\ w.pc = "release"
     /\ IF wg.v # 0
          THEN Panic /\ UNCHANGED <<wg, gor, tree>>
          ELSE /\ wg' = WaitGroupRelease(wg)
               /\ gor' = g2
               /\ tree' = Collect(tree, rootPos, roots, \E h \in Gids : g2[h].pc # "idle")
               /\ UNCHANGED panicked
     /\ UNCHANGED <<rootPos, opsPos, lim, ctx, limits, policy, size, cycles, maxdepth, merged,
                    collisionCount, roots, host, iters, searches, moves, resets, obs,
                    expandCalls, ns, lt, ls, mw, quota, strategy>>

\* Search, main thread: wg.Wait() loads the state; it returns on a counter of
\* 0, else it counts itself as a waiter and parks
WJoin(g) ==
  LET w == gor[g] IN
  /\ ~panicked /\ w.pc = "join"
  /\ IF wg.v = 0
       THEN gor' = [gor EXCEPT ![g].pc = "should"] /\ UNCHANGED wg
       ELSE gor' = [gor EXCEPT ![g].pc = "sema"] /\ wg' = WaitGroupPark(wg)
  /\ UNCHANGED <<tree, rootPos, opsPos, lim, ctx, limits, policy, size, cycles, maxdepth, merged,
                 collisionCount, roots, host, iters, searches, moves, resets, obs,
                 expandCalls, panicked, ns, lt, ls, mw, quota, strategy>>

\* Search, main thread: the parked wg.Wait() is woken and returns, or panics
\* when the WaitGroup is in use again
WWake(g) ==
  LET w == gor[g] IN
  /\ ~panicked /\ w.pc = "sema"
  /\ wg.sema > 0
  /\ wg' = WaitGroupTake(wg)
  /\ IF WaitGroupReused(wg)
       THEN Panic /\ UNCHANGED gor
       ELSE gor' = [gor EXCEPT ![g].pc = "should"] /\ UNCHANGED panicked
  /\ UNCHANGED <<tree, rootPos, opsPos, lim, ctx, limits, policy, size, cycles, maxdepth, merged,
                 collisionCount, roots, host, iters, searches, moves, resets, obs,
                 expandCalls, ns, lt, ls, mw, quota, strategy>>

\* Search, main thread: "if mcts.shouldMerge()"; Search returns when it is false
WShouldMerge(g) ==
  LET w == gor[g]
      g2 == [gor EXCEPT ![g] = IdleG]
  IN /\ ~panicked /\ w.pc = "should"
     /\ IF shouldMerge
          THEN gor' = [gor EXCEPT ![g].pc = "mroots"] /\ UNCHANGED tree
          ELSE /\ gor' = g2
               /\ tree' = Collect(tree, rootPos, roots, \E h \in Gids : g2[h].pc # "idle")
     /\ UNCHANGED <<rootPos, opsPos, lim, ctx, limits, policy, size, cycles, maxdepth, merged,
                    collisionCount, wg, roots, host, iters, searches, moves, resets, obs,
                    expandCalls, panicked, ns, lt, ls, mw, quota, strategy>>

\* a mergeResult call in progress: the nodes it was given, where it is (pc),
\* the values it has loaded (n, v), otherLen (k) and the child index (i)
MergeFrame(root, other, base) ==
  [root |-> root, other |-> other, base |-> base, pc |-> "n", i |-> 0, k |-> 0, n |-> 0, v |-> 0]
\* the calls that have finished come off the stack: a call whose loop over the
\* children is through returns
RECURSIVE Unwind(_)
Unwind(st) ==
  IF st = <<>> THEN st
  ELSE IF Head(st).pc = "child" /\ Head(st).i > Head(st).k THEN Unwind(Tail(st))
  ELSE st
\* mergeResult returns in the goroutine w: back in its caller, or in the loop
\* of mergeResults
MergeReturn(w) ==
  LET st == Unwind(Tail(w.mg.st))
  IN IF st = <<>> THEN [w EXCEPT !.pc = "mnext", !.mg.st = <<>>, !.mg.i = @ + 1]
     ELSE [w EXCEPT !.mg.st = st]
MergeGoto(w, pc) == [w EXCEPT !.mg.st = <<[Head(@) EXCEPT !.pc = pc]>> \o Tail(@)]
\* the slice header another goroutine took of mcts.roots no longer is that of
\* mcts.roots
Unshared(G) == [g \in Gids |-> [G[g] EXCEPT !.mg.shared = FALSE]]
\* mcts.roots[k] = r, seen through every header of the same array
SharedStore(G, k, r) ==
  [g \in Gids |-> IF G[g].mg.shared THEN [G[g] EXCEPT !.mg.arr[k] = r] ELSE G[g]]

\* mergeResults: "range mcts.roots[1:]" takes the header of the slice once;
\* slicing a nil slice from 1 is out of range
WMergeRange(g) ==
  LET w == gor[g] IN
  /\ ~panicked /\ w.pc = "mroots"
  /\ IF roots = <<>>
       THEN Panic /\ UNCHANGED gor
       ELSE /\ gor' = [gor EXCEPT ![g].pc = "mnext",
                                  ![g].mg = [NoMerge EXCEPT !.arr = roots, !.shared = TRUE, !.i = 2]]
            /\ UNCHANGED panicked
  /\ UNCHANGED <<tree, rootPos, opsPos, lim, ctx, limits, policy, size, cycles, maxdepth, merged,
                 collisionCount, wg, roots, host, iters, searches, moves, resets, obs,
                 expandCalls, ns, lt, ls, mw, quota, strategy>>

\* mergeResults, one round of the loop: other is read from the array
WMergeNext(g) ==
  LET w == gor[g] IN
  /\ ~panicked /\ w.pc = "mnext"
  /\ gor' = IF w.mg.i > Len(w.mg.arr) THEN [gor EXCEPT ![g].pc = "mdone", ![g].mg = NoMerge]
            ELSE [gor EXCEPT ![g].pc = "mcall", ![g].mg.other = w.mg.arr[w.mg.i]]
  /\ UNCHANGED <<tree, rootPos, opsPos, lim, ctx, limits, policy, size, cycles, maxdepth, merged,
                 collisionCount, wg, roots, host, iters, searches, moves, resets, obs,
                 expandCalls, panicked, ns, lt, ls, mw, quota, strategy>>

\* mergeResults: mergeResult(mcts.Root, other) is called with the Root of this
\* moment; a nil other makes it return at once
WMergeCall(g) ==
  LET w == gor[g] IN
  /\ ~panicked /\ w.pc = "mcall"
  /\ gor' = IF w.mg.other = NilRef
              THEN [gor EXCEPT ![g].pc = "mnext", ![g].mg.i = @ + 1]
              ELSE [gor EXCEPT ![g].pc = "mwalk", ![g].mg.other = NilRef,
                      ![g].mg.st = <<MergeFrame(RootRef, w.mg.other, Len(w.mg.other.p))>>]
  /\ UNCHANGED <<tree, rootPos, opsPos, lim, ctx, limits, policy, size, cycles, maxdepth, merged,
                 collisionCount, wg, roots, host, iters, searches, moves, resets, obs,
                 expandCalls, panicked, ns, lt, ls, mw, quota, strategy>>

\* mergeResult, "Merge the counters": other.Stats.N(), other.Stats.VirtualLoss(),
\* the two additions of AddVvl, other.Stats.Q(), AddQ, one atomic operation a
\* step.  Q() loads q and divides it by 1e3; AddQ adds uint64(result * 1e3).
WMergeStats(g) ==
  LET w == gor[g]
      f == Head(w.mg.st)
      o == tree[f.other.t][f.other.p]
      rest == Tail(w.mg.st)
      goes(f2) == [gor EXCEPT ![g].mg.st = <<f2>> \o rest]
  IN /\ ~panicked /\ w.pc = "mwalk" /\ f.pc \in {"n", "vl", "addvl", "addn", "q", "addq"}
     /\ IF f.pc = "n" THEN gor' = goes([f EXCEPT !.pc = "vl", !.n = o.n]) /\ UNCHANGED tree
        ELSE IF f.pc = "vl" THEN gor' = goes([f EXCEPT !.pc = "addvl", !.v = o.vl]) /\ UNCHANGED tree
        ELSE IF f.pc = "addvl"
          THEN gor' = goes([f EXCEPT !.pc = "addn", !.v = 0]) /\ tree' = AddLoss(tree, f.root, f.v)
        ELSE IF f.pc = "addn"
          THEN gor' = goes([f EXCEPT !.pc = "q", !.n = 0]) /\ tree' = AddVisits(tree, f.root, f.n)
        ELSE IF f.pc = "q" THEN gor' = goes([f EXCEPT !.pc = "addq", !.v = o.q]) /\ UNCHANGED tree
        ELSE /\ gor' = goes([f EXCEPT !.pc = "olen", !.v = 0])
             /\ tree' = AddQ(tree, f.root, AddQMilli(Q(f.v)))
     /\ UNCHANGED <<rootPos, opsPos, lim, ctx, limits, policy, size, cycles, maxdepth, merged,
                    collisionCount, wg, roots, host, iters, searches, moves, resets, obs,
                    expandCalls, panicked, ns, lt, ls, mw, quota, strategy>>

\* mergeResult, "Merge children": otherLen, then rootLen and the comparison;
\* the call returns on a mismatch unless the root has no children
WMergeLens(g) ==
  LET w == gor[g]
      f == Head(w.mg.st)
      rootLen == tree[f.root.t][f.root.p].kids
  IN /\ ~panicked /\ w.pc = "mwalk" /\ f.pc \in {"olen", "rlen"}
     /\ gor' = IF f.pc = "olen"
                 THEN [gor EXCEPT ![g] = MergeGoto([w EXCEPT !.mg.st[1].k = tree[f.other.t][f.other.p].kids],
                                                   "rlen")]
               ELSE IF rootLen # f.k
                 THEN IF rootLen = 0 THEN [gor EXCEPT ![g] = MergeGoto(w, "adopt")]
                      ELSE [gor EXCEPT ![g] = MergeReturn(w)]
               ELSE IF f.k = 0 THEN [gor EXCEPT ![g] = MergeReturn(w)]
               ELSE [gor EXCEPT ![g] = MergeGoto([w EXCEPT !.mg.st[1].i = 1], "child")]
     /\ UNCHANGED <<tree, rootPos, opsPos, lim, ctx, limits, policy, size, cycles, maxdepth,
                    merged, collisionCount, wg, roots, host, iters, searches, moves, resets, obs,
                    expandCalls, panicked, ns, lt, ls, mw, quota, strategy>>

\* mergeResult: root.Children = make(otherLen), copy(root.Children, other.Children)
WMergeAdopt(g) ==
  LET w == gor[g]
      f == Head(w.mg.st)
  IN /\ ~panicked /\ w.pc = "mwalk" /\ f.pc = "adopt"
     /\ tree' = Adopt(tree, f.root, f.other, f.base)
     /\ gor' = [gor EXCEPT ![g] = MergeReturn(w)]
     /\ UNCHANGED <<rootPos, opsPos, lim, ctx, limits, policy, size, cycles, maxdepth, merged,
                    collisionCount, wg, roots, host, iters, searches, moves, resets, obs,
                    expandCalls, panicked, ns, lt, ls, mw, quota, strategy>>

\* mergeResult, one round of "for i := 0; i < otherLen; i++": other.Children[i],
\* root.Children[i] (an index beyond the children the root has now is out of
\* range), and the call on the two children
WMergeChild(g) ==
  LET w == gor[g]
      f == Head(w.mg.st)
  IN /\ ~panicked /\ w.pc = "mwalk" /\ f.pc = "child"
     /\ IF f.i > tree[f.other.t][f.other.p].kids \/ f.i > tree[f.root.t][f.root.p].kids
          THEN Panic /\ UNCHANGED gor
          ELSE /\ gor' = [gor EXCEPT ![g].mg.st =
                            <<MergeFrame(Child(f.root, f.i), Child(f.other, f.i), f.base),
                              [f EXCEPT !.i = @ + 1]>> \o Tail(w.mg.st)]
               /\ UNCHANGED panicked
     /\ UNCHANGED <<tree, rootPos, opsPos, lim, ctx, limits, policy, size, cycles, maxdepth,
                    merged, collisionCount, wg, roots, host, iters, searches, moves, resets, obs,
                    expandCalls, ns, lt, ls, mw, quota, strategy>>

\* mergeResults: merged.Store(true)
WMerged(g) ==
  LET w == gor[g] IN
  /\ ~panicked /\ w.pc = "mdone"
  /\ merged' = TRUE
  /\ gor' = [gor EXCEPT ![g].pc = "clear"]
  /\ UNCHANGED <<tree, rootPos, opsPos, lim, ctx, limits, policy, size, cycles, maxdepth,
                 collisionCount, wg, roots, host, iters, searches, moves, resets, obs,
                 expandCalls, panicked, ns, lt, ls, mw, quota, strategy>>

\* mergeResults, last statement: mcts.roots = nil; Search returns
WClear(g) ==
  LET w == gor[g]
      g2 == Unshared([gor EXCEPT ![g] = IdleG])
      live2 == \E h \in Gids : g2[h].pc # "idle"
  IN /\ ~panicked /\ w.pc = "clear"
     /\ roots' = <<>>
     /\ gor' = g2
     /\ tree' = Collect(tree, rootPos, <<>>, live2)
     /\ UNCHANGED <<rootPos, opsPos, lim, ctx, limits, policy, size, cycles, maxdepth, merged,
                    collisionCount, wg, host, iters, searches, moves, resets, obs, expandCalls,
                    panicked, ns, lt, ls, mw, quota, strategy>>

\* ------------------------------------------------------------ the host API
HostId == 0 - 1
\* SearchMultiThreaded, MakeMove and Reset calls made so far
Calls == searches + moves + resets

\* Synchronize returns at once: merged is set (root parallel with several
\* threads), or the WaitGroup counter is zero
SyncReady == IF shouldMerge THEN merged ELSE wg.v = 0
\* Synchronize in a host that goes on as record to: the spin on merged ends,
\* or wg.Wait() returns on a counter of 0 or parks the host at sem
SynchronizeFrom(to, sem) ==
  IF shouldMerge THEN merged /\ host' = to /\ UNCHANGED wg
  ELSE IF wg.v = 0 THEN host' = to /\ UNCHANGED wg
  ELSE host' = [host EXCEPT !.pc = sem] /\ wg' = WaitGroupPark(wg)
\* where the host is parked in the wg.Wait() of Synchronize, and where the
\* caller goes on when it returns
SemPcs == {"sy_sem", "mm_sem", "rs_sem"}
AfterSem(pc) == IF pc = "mm_sem" THEN "mm_find" ELSE IF pc = "rs_sem" THEN "rs_ops" ELSE "idle"

\* prematureCleanup: Limiter.Stop(), EvaluateStopReason, onStop
prematureCleanup(l, s, depth, cyc) ==
  /\ lim' = EvaluateStopReason(l, limits, ctx, size, depth, cyc)
  /\ obs' = [obs EXCEPT ![s] = [@ EXCEPT !.stop = @ + 1, !.stopBy = @ \cup {HostId}]]

\* tryExpandingWarn(Root): claim the root, expand it with mcts.ops, report
\* TRUE when no child came out
tryExpandingTree(T) ==
  IF ~CanExpandCas(T, RootRef) THEN T
  ELSE LET T1 == ExpandNode(SetFlags(T, RootRef, ExpandingMask), RootRef, opsPos)
       IN IF T1[Canon][rootPos].kids > 0 THEN FinishExpanding(T1, RootRef)
          ELSE CancelExpanding(T1, RootRef)
tryExpandingWarn(T) == CanExpandCas(T, RootRef) /\ ExpandCount(opsPos) = 0
tryExpandingAdded(T) == IF CanExpandCas(T, RootRef) THEN ExpandCount(opsPos) ELSE 0

\* the goroutine slots not in use, and the least of a set of numbers
IdleSlots == {g \in Gids : ~Live(g)}
Least(S) == CHOOSE x \in S : \A y \in S : x <= y
\* the arenas that hold a worker's clone, and those no pointer leads into
CloneArenas == 1..MaxGoroutines
RefsOf(w) ==
  {w.root, w.node, w.mg.other} \cup {w.mg.arr[i] : i \in 1..Len(w.mg.arr)}
  \cup {w.mg.st[i].root : i \in 1..Len(w.mg.st)} \cup {w.mg.st[i].other : i \in 1..Len(w.mg.st)}
FreeArenas ==
  {t \in CloneArenas :
     /\ \A i \in 1..Len(roots) : roots[i].t # t
     /\ \A g \in Gids : \A r \in RefsOf(gor[g]) : r.t # t}

\* SearchMultiThreaded on a terminal root: prematureCleanup and return
SearchTerminalRoot ==
  /\ ~panicked /\ host.pc = "idle" /\ searches < quota.searches /\ Calls < quota.calls
  /\ Terminal(tree, RootRef)
  /\ prematureCleanup(lim, searches + 1, maxdepth, cycles)
  /\ searches' = searches + 1
  /\ UNCHANGED <<tree, rootPos, opsPos, ctx, limits, policy, size, cycles, maxdepth, merged,
                 collisionCount, wg, roots, gor, host, iters, moves, resets, expandCalls,
                 panicked, ns, lt, ls, mw, quota, strategy>>

\* SearchMultiThreaded on a root that is not Terminal, and the first statement
\* of setupSearch: Limiter.Reset()
SearchMultiThreaded ==
  LET s == searches + 1 IN
  /\ ~panicked /\ host.pc = "idle" /\ searches < quota.searches /\ Calls < quota.calls
  /\ ~Terminal(tree, RootRef)
  /\ Cardinality(Gids \ IdleSlots) + Max(1, limits.NThreads) <= quota.goroutines
  /\ lim' = LimiterReset(lim, limits)
  /\ searches' = s
  /\ obs' = [obs EXCEPT ![s] = [@ EXCEPT !.rootN = tree[Canon][rootPos].n]]
  /\ host' = [IdleHost EXCEPT !.pc = "ss_cycles"]
  /\ UNCHANGED <<tree, rootPos, opsPos, ctx, limits, policy, size, cycles, maxdepth, merged,
                 collisionCount, wg, roots, gor, iters, moves, resets, expandCalls, panicked, ns,
                 lt, ls, mw, quota, strategy>>

\* setupSearch: cycles.Store(0)
SetupCycles ==
  /\ ~panicked /\ host.pc = "ss_cycles"
  /\ cycles' = 0
  /\ host' = [host EXCEPT !.pc = "ss_depth"]
  /\ UNCHANGED <<tree, rootPos, opsPos, lim, ctx, limits, policy, size, maxdepth, merged,
                 collisionCount, wg, roots, gor, iters, searches, moves, resets, obs,
                 expandCalls, panicked, ns, lt, ls, mw, quota, strategy>>

\* setupSearch: maxdepth.Store(0)
SetupDepth ==
  /\ ~panicked /\ host.pc = "ss_depth"
  /\ maxdepth' = 0
  /\ host' = [host EXCEPT !.pc = "ss_merged"]
  /\ UNCHANGED <<tree, rootPos, opsPos, lim, ctx, limits, policy, size, cycles, merged,
                 collisionCount, wg, roots, gor, iters, searches, moves, resets, obs,
                 expandCalls, panicked, ns, lt, ls, mw, quota, strategy>>

\* setupSearch: merged.Store(false); then threads := max(1, NThreads)
SetupMerged ==
  /\ ~panicked /\ host.pc = "ss_merged"
  /\ merged' = FALSE
  /\ host' = [host EXCEPT !.pc = "ss_expand", !.threads = Max(1, limits.NThreads)]
  /\ UNCHANGED <<tree, rootPos, opsPos, lim, ctx, limits, policy, size, cycles, maxdepth,
                 collisionCount, wg, roots, gor, iters, searches, moves, resets, obs,
                 expandCalls, panicked, ns, lt, ls, mw, quota, strategy>>

\* SearchMultiThreaded: "!Root.Expanded() && tryExpandingWarn(Root)", and the
\* prematureCleanup and panic when the root got no child
SearchExpandRoot ==
  LET expandsRoot == ~Expanded(tree, RootRef) IN
  /\ ~panicked /\ host.pc = "ss_expand"
  /\ expandCalls' = IF expandsRoot /\ CanExpandCas(tree, RootRef)
                       THEN expandCalls \cup {[by |-> "tryExpandingWarn", flags |-> ExpandingMask]}
                       ELSE expandCalls
  /\ tree' = IF expandsRoot THEN tryExpandingTree(tree) ELSE tree
  /\ IF expandsRoot /\ tryExpandingWarn(tree)
       THEN /\ prematureCleanup(lim, searches, maxdepth, cycles)
            /\ Panic
            /\ UNCHANGED <<size, host>>
       ELSE /\ size' = size + (IF expandsRoot THEN tryExpandingAdded(tree) ELSE 0)
            /\ host' = [host EXCEPT !.pc = "ss_make"]
            /\ UNCHANGED <<lim, obs, panicked>>
  /\ UNCHANGED <<rootPos, opsPos, ctx, limits, policy, cycles, maxdepth, merged, collisionCount,
                 wg, roots, gor, iters, searches, moves, resets, ns, lt, ls, mw, quota, strategy>>

\* make([]*NodeBase, n): n nil pointers
RECURSIVE NilRefs(_)
NilRefs(n) == IF n = 0 THEN <<>> ELSE Append(NilRefs(n - 1), NilRef)

\* SearchMultiThreaded: mcts.roots = make([]*NodeBase, threads)
SearchMakeRoots ==
  /\ ~panicked /\ host.pc = "ss_make"
  /\ roots' = NilRefs(host.threads)
  /\ gor' = Unshared(gor)
  /\ host' = [host EXCEPT !.pc = "ss_range"]
  /\ UNCHANGED <<tree, rootPos, opsPos, lim, ctx, limits, policy, size, cycles, maxdepth, merged,
                 collisionCount, wg, iters, searches, moves, resets, obs, expandCalls, panicked,
                 ns, lt, ls, mw, quota, strategy>>

\* SearchMultiThreaded, "for id := range mcts.roots" of either loop: the
\* length of the slice is taken once; there is no round for a nil slice
SearchRange ==
  /\ ~panicked /\ host.pc \in {"ss_range", "ss_range2"}
  /\ host' = IF Len(roots) = 0
               THEN (IF host.pc = "ss_range" THEN [host EXCEPT !.pc = "ss_range2"] ELSE IdleHost)
               ELSE [host EXCEPT !.pc = IF host.pc = "ss_range" THEN "ss_fill" ELSE "ss_add",
                                 !.n = Len(roots), !.next = 1]
  /\ UNCHANGED <<tree, rootPos, opsPos, lim, ctx, limits, policy, size, cycles, maxdepth, merged,
                 collisionCount, wg, roots, gor, iters, searches, moves, resets, obs,
                 expandCalls, panicked, ns, lt, ls, mw, quota, strategy>>

\* a Clone call in progress on the node at p: pc is the statement it is at,
\* k the length "range node.Children" took, i the child being cloned
CloneFrame(p) == [p |-> p, pc |-> "len", i |-> 0, k |-> 0]
\* the round of the first loop is over
FillNext(h) ==
  IF h.next = h.n THEN [h EXCEPT !.pc = "ss_range2", !.next = 0, !.n = 0, !.arena = 0 - 1]
  ELSE [h EXCEPT !.pc = "ss_fill", !.next = @ + 1, !.arena = 0 - 1]

\* SearchMultiThreaded, one round of the first loop: mcts.roots[id] = mcts.Root
\* for the main thread and under tree parallel; else Root.Clone(nil) is called.
\* The store into a slice that has become nil is out of range.
SearchFill ==
  LET k == host.next IN
  /\ ~panicked /\ host.pc = "ss_fill"
  /\ IF k - 1 = mainThreadId \/ policy # "root"
       THEN IF Len(roots) < k
              THEN Panic /\ UNCHANGED <<roots, gor, host, tree>>
              ELSE /\ roots' = [roots EXCEPT ![k] = RootRef]
                   /\ gor' = SharedStore(gor, k, RootRef)
                   /\ host' = FillNext(host)
                   /\ UNCHANGED <<panicked, tree>>
       ELSE /\ FreeArenas # {}
            /\ tree' = [tree EXCEPT ![Least(FreeArenas)] = BlankTree]
            /\ host' = [host EXCEPT !.pc = "ss_clone", !.arena = Least(FreeArenas),
                                    !.walk = <<CloneFrame(rootPos)>>]
            /\ UNCHANGED <<roots, gor, panicked>>
  /\ UNCHANGED <<rootPos, opsPos, lim, ctx, limits, policy, size, cycles, maxdepth, merged,
                 collisionCount, wg, iters, searches, moves, resets, obs, expandCalls, ns, lt,
                 ls, mw, quota, strategy>>

\* what Parent of the clone of the node at p is: nil for the root, the slot of
\* the parent's clone one level down, a heap copy further down
CloneParent(p) ==
  IF p = rootPos THEN "nil" ELSE IF Len(p) = Len(rootPos) + 1 THEN "slot" ELSE "copy"
\* a Clone call returns: "clone.Children[i] = *child" in its caller, out of
\* range when the caller's slice was made shorter than the range it walks;
\* then the caller's next round, or its Stats.Clone()
RECURSIVE CloneReturn(_, _)
CloneReturn(T, st) ==
  IF Len(st) = 1 THEN <<>>
  ELSE LET up == st[2] IN
       IF up.i > T[up.p].kids THEN <<[up EXCEPT !.pc = "panic"]>> \o SubSeq(st, 3, Len(st))
       ELSE IF up.i < up.k
         THEN <<CloneFrame(Append(up.p, up.i + 1)), [up EXCEPT !.i = @ + 1]>> \o SubSeq(st, 3, Len(st))
       ELSE <<[up EXCEPT !.pc = "q"]>> \o SubSeq(st, 3, Len(st))

\* NodeBase.Clone, one read of the node being cloned a step: len(node.Children)
\* for the make, node.Flags, len(node.Children) for the range, and the loads
\* of Stats.Clone: q, n, virtualLoss.  The clone is written into host.arena.
SearchClone ==
  LET f == Head(host.walk)
      a == host.arena
      src == tree[Canon][f.p]
      rest == Tail(host.walk)
      T2 == IF f.pc = "len"
              THEN [tree EXCEPT ![a][f.p] = [BlankNode EXCEPT !.kids = src.kids,
                                                              !.parent = CloneParent(f.p)]]
            ELSE IF f.pc = "flags" THEN [tree EXCEPT ![a][f.p].flags = src.flags]
            ELSE IF f.pc = "q" THEN [tree EXCEPT ![a][f.p].q = src.q]
            ELSE IF f.pc = "n" THEN [tree EXCEPT ![a][f.p].n = src.n]
            ELSE IF f.pc = "vl" THEN [tree EXCEPT ![a][f.p].vl = src.vl]
            ELSE tree
      st2 == IF f.pc = "len" THEN <<[f EXCEPT !.pc = "flags"]>> \o rest
             ELSE IF f.pc = "flags" THEN <<[f EXCEPT !.pc = "range"]>> \o rest
             ELSE IF f.pc = "range"
               THEN IF src.kids = 0 THEN <<[f EXCEPT !.pc = "q"]>> \o rest
                    ELSE <<CloneFrame(Append(f.p, 1)), [f EXCEPT !.pc = "kid", !.k = src.kids, !.i = 1]>>
                         \o rest
             ELSE IF f.pc = "q" THEN <<[f EXCEPT !.pc = "n"]>> \o rest
             ELSE IF f.pc = "n" THEN <<[f EXCEPT !.pc = "vl"]>> \o rest
             ELSE CloneReturn(T2[a], host.walk)
  IN /\ ~panicked /\ host.pc = "ss_clone"
     /\ tree' = T2
     /\ IF st2 # <<>> /\ Head(st2).pc = "panic"
          THEN Panic /\ UNCHANGED host
          ELSE /\ host' = [host EXCEPT !.walk = st2, !.pc = IF st2 = <<>> THEN "ss_store" ELSE @]
               /\ UNCHANGED panicked
     /\ UNCHANGED <<rootPos, opsPos, lim, ctx, limits, policy, size, cycles, maxdepth, merged,
                    collisionCount, wg, roots, gor, iters, searches, moves, resets, obs,
                    expandCalls, ns, lt, ls, mw, quota, strategy>>

\* SearchMultiThreaded: mcts.roots[id] = the clone Root.Clone(nil) returned
SearchFillClone ==
  LET k == host.next
      r == Ref(host.arena, rootPos)
  IN /\ ~panicked /\ host.pc = "ss_store"
     /\ IF Len(roots) < k
          THEN Panic /\ UNCHANGED <<roots, gor, host>>
          ELSE /\ roots' = [roots EXCEPT ![k] = r]
               /\ gor' = SharedStore(gor, k, r)
               /\ host' = FillNext(host)
               /\ UNCHANGED panicked
     /\ UNCHANGED <<tree, rootPos, opsPos, lim, ctx, limits, policy, size, cycles, maxdepth,
                    merged, collisionCount, wg, iters, searches, moves, resets, obs, expandCalls,
                    ns, lt, ls, mw, quota, strategy>>

\* SearchMultiThreaded, second loop: wg.Add(1), which panics when a Done has
\* brought the counter to 0 and has not yet released the parked Wait calls
SearchAdd ==
  /\ ~panicked /\ host.pc = "ss_add"
  /\ wg' = WaitGroupAdd(wg, 1)
  /\ IF WaitGroupMisuse(WaitGroupAdd(wg, 1), 1)
       THEN Panic /\ UNCHANGED host
       ELSE host' = [host EXCEPT !.pc = "ss_go"] /\ UNCHANGED panicked
  /\ UNCHANGED <<tree, rootPos, opsPos, lim, ctx, limits, policy, size, cycles, maxdepth, merged,
                 collisionCount, roots, gor, iters, searches, moves, resets, obs, expandCalls,
                 ns, lt, ls, mw, quota, strategy>>

\* SearchMultiThreaded, second loop: go mcts.Search(mcts.roots[id],
\* mcts.ops.Clone(), id).  mcts.roots is read again in every round; an index
\* into a nil slice is out of range.
SearchLaunch ==
  LET k == host.next
      g == Least(IdleSlots)
  IN /\ ~panicked /\ host.pc = "ss_go"
     /\ IF Len(roots) < k
          THEN Panic /\ UNCHANGED <<gor, host, obs>>
          ELSE /\ gor' = [gor EXCEPT ![g] =
                            [IdleG EXCEPT !.pc = "ok", !.tid = k - 1, !.gen = searches,
                                          !.root = roots[k], !.opos = opsPos,
                                          !.opos0 = opsPos]]
               /\ host' = IF k = host.n THEN IdleHost
                          ELSE [host EXCEPT !.pc = "ss_add", !.next = k + 1]
               /\ obs' = [obs EXCEPT ![searches] = [@ EXCEPT !.launched = TRUE]]
               /\ UNCHANGED panicked
     /\ UNCHANGED <<tree, rootPos, opsPos, lim, ctx, limits, policy, size, cycles, maxdepth,
                    merged, collisionCount, wg, roots, iters, searches, moves, resets,
                    expandCalls, ns, lt, ls, mw, quota, strategy>>

\* MCTS.Stop: Limiter.SetStop(true)
Stop ==
  /\ ~panicked /\ host.pc = "idle"
  /\ lim' = [lim EXCEPT !.stop = TRUE]
  /\ obs' = AskStop(obs)
  /\ UNCHANGED <<tree, rootPos, opsPos, ctx, limits, policy, size, cycles, maxdepth, merged,
                 collisionCount, wg, roots, gor, host, iters, searches, moves, resets,
                 expandCalls, panicked, ns, lt, ls, mw, quota, strategy>>

\* the context given to the Limiter is cancelled
Cancel ==
  /\ ~panicked /\ ctx = "live"
  /\ ctx' = "cancelled"
  /\ obs' = AskStop(obs)
  /\ UNCHANGED <<tree, rootPos, opsPos, lim, limits, policy, size, cycles, maxdepth, merged,
                 collisionCount, wg, roots, gor, host, iters, searches, moves, resets,
                 expandCalls, panicked, ns, lt, ls, mw, quota, strategy>>

\* a setter called between two calls of the API; the behaviour is followed
\* for quota.sets of them
SetterCall ==
  /\ ~panicked /\ host.pc = "idle" /\ quota.sets > 0
  /\ quota' = [quota EXCEPT !.sets = @ - 1]

\* SetContext(ctx) with a context that can be cancelled and is not
SetContext ==
  /\ SetterCall
  /\ ctx # "live"
  /\ ctx' = "live"
  /\ UNCHANGED <<tree, rootPos, opsPos, lim, limits, policy, size, cycles, maxdepth, merged,
                 collisionCount, wg, roots, gor, host, iters, searches, moves, resets, obs,
                 expandCalls, panicked, ns, lt, ls, mw, strategy>>

\* SetMultithreadPolicy(p)
Policies == {"tree", "root"}
SetMultithreadPolicy(p) ==
  /\ SetterCall
  /\ p # policy
  /\ policy' = p
  /\ UNCHANGED <<tree, rootPos, opsPos, lim, ctx, limits, size, cycles, maxdepth, merged,
                 collisionCount, wg, roots, gor, host, iters, searches, moves, resets, obs,
                 expandCalls, panicked, ns, lt, ls, mw, strategy>>

\* SetLimits(lm): Limiter.limits = lm; the Limiter takes the rest on its next Reset
LimitsArgs ==
  { Limits(TRUE, DefaultCyclesLimit, 1), Limits(TRUE, DefaultCyclesLimit, SearchThreads),
    Limits(FALSE, CyclesLimit, 1) }
SetLimits(lm) ==
  /\ SetterCall
  /\ lm # limits
  /\ limits' = lm
  /\ UNCHANGED <<tree, rootPos, opsPos, lim, ctx, policy, size, cycles, maxdepth, merged,
                 collisionCount, wg, roots, gor, host, iters, searches, moves, resets, obs,
                 expandCalls, panicked, ns, lt, ls, mw, strategy>>

\* Limiter.SetStop(v) on the Limiter of the tree
SetStop(v) ==
  /\ SetterCall
  /\ v # lim.stop
  /\ lim' = [lim EXCEPT !.stop = v]
  /\ obs' = IF v THEN AskStop(obs) ELSE obs
  /\ UNCHANGED <<tree, rootPos, opsPos, ctx, limits, policy, size, cycles, maxdepth, merged,
                 collisionCount, wg, roots, gor, host, iters, searches, moves, resets,
                 expandCalls, panicked, ns, lt, ls, mw, strategy>>

\* Strategy().SetExplorationParam(c): ExplorationParam = max(0, c)
SetExplorationParam(c) ==
  /\ SetterCall
  /\ strategy' = [strategy EXCEPT !.ExplorationParam = F64Max(F64Zero, c)]
  /\ strategy' # strategy
  /\ UNCHANGED <<tree, rootPos, opsPos, lim, ctx, limits, policy, size, cycles, maxdepth, merged,
                 collisionCount, wg, roots, gor, host, iters, searches, moves, resets, obs,
                 expandCalls, panicked, ns, lt, ls, mw>>

\* the setters of the listener of the tree: SetListener(l), ResetListener(),
\* StatsListener().OnCycle(f) and StatsListener().SetCycleInterval(n)
ListenerArgs == {NewStatsListener, ListenerEvery(1), ListenerEvery(MaxInterval)}
MctsSetListener(l) ==
  /\ SetterCall
  /\ l # ls.listener
  /\ ls' = [ls EXCEPT !.listener = l]
  /\ UNCHANGED <<tree, rootPos, opsPos, lim, ctx, limits, policy, size, cycles, maxdepth, merged,
                 collisionCount, wg, roots, gor, host, iters, searches, moves, resets, obs,
                 expandCalls, panicked, ns, lt, mw, strategy>>
MctsResetListener ==
  /\ SetterCall
  /\ ls.listener.onCycle
  /\ ls' = [ls EXCEPT !.listener.onCycle = FALSE]
  /\ UNCHANGED <<tree, rootPos, opsPos, lim, ctx, limits, policy, size, cycles, maxdepth, merged,
                 collisionCount, wg, roots, gor, host, iters, searches, moves, resets, obs,
                 expandCalls, panicked, ns, lt, mw, strategy>>
MctsOnCycle(f) ==
  /\ SetterCall
  /\ f # ls.listener.onCycle
  /\ ls' = [ls EXCEPT !.listener.onCycle = f]
  /\ UNCHANGED <<tree, rootPos, opsPos, lim, ctx, limits, policy, size, cycles, maxdepth, merged,
                 collisionCount, wg, roots, gor, host, iters, searches, moves, resets, obs,
                 expandCalls, panicked, ns, lt, mw, strategy>>
MctsSetCycleInterval(n) ==
  /\ SetterCall
  /\ Max(1, n) # ls.listener.nCycles
  /\ ls' = [ls EXCEPT !.listener.nCycles = Max(1, n)]
  /\ UNCHANGED <<tree, rootPos, opsPos, lim, ctx, limits, policy, size, cycles, maxdepth, merged,
                 collisionCount, wg, roots, gor, host, iters, searches, moves, resets, obs,
                 expandCalls, panicked, ns, lt, mw, strategy>>

\* Synchronize called by the host between two other calls
Synchronize ==
  /\ ~panicked /\ host.pc = "idle"
  /\ SynchronizeFrom(host, "sy_sem")
  /\ UNCHANGED <<tree, rootPos, opsPos, lim, ctx, limits, policy, size, cycles, maxdepth, merged,
                 collisionCount, roots, gor, iters, searches, moves, resets, obs,
                 expandCalls, panicked, ns, lt, ls, mw, quota, strategy>>

\* Synchronize, the parked wg.Wait() is woken: it returns to the caller, or
\* panics when the WaitGroup is in use again
SynchronizeWake ==
  /\ ~panicked /\ host.pc \in SemPcs
  /\ wg.sema > 0
  /\ wg' = WaitGroupTake(wg)
  /\ IF WaitGroupReused(wg)
       THEN Panic /\ UNCHANGED host
       ELSE host' = [host EXCEPT !.pc = AfterSem(host.pc)] /\ UNCHANGED panicked
  /\ UNCHANGED <<tree, rootPos, opsPos, lim, ctx, limits, policy, size, cycles, maxdepth, merged,
                 collisionCount, roots, gor, iters, searches, moves, resets, obs,
                 expandCalls, ns, lt, ls, mw, quota, strategy>>

\* IsSearching(): the negation of Limiter.Stop(), which polls the context
IsSearching(l) == ~StopPoll(l, ctx)
\* the Limiter after "if IsSearching() { Stop(); ... }"
StopIfSearching(l) == [l EXCEPT !.stop = TRUE]
ResetPositions == {<<1>>, <<1, 1>>}

\* MakeMove(m), "if IsSearching() { Stop(); Synchronize() }" up to the call of
\* Synchronize
MakeMove(m) ==
  /\ ~panicked /\ host.pc = "idle" /\ moves < quota.moves /\ Calls < quota.calls
  /\ moves' = moves + 1
  /\ IF IsSearching(lim)
       THEN /\ lim' = StopIfSearching(lim)
            /\ obs' = AskStop(obs)
            /\ host' = [IdleHost EXCEPT !.pc = "mm_sync", !.move = m]
       ELSE /\ lim' = [lim EXCEPT !.stop = TRUE]
            /\ host' = [IdleHost EXCEPT !.pc = "mm_find", !.move = m]
            /\ UNCHANGED obs
  /\ UNCHANGED <<tree, rootPos, opsPos, ctx, limits, policy, size, cycles, maxdepth, merged,
                 collisionCount, wg, roots, gor, iters, searches, resets, expandCalls, panicked,
                 ns, lt, ls, mw, quota, strategy>>

\* MakeMove: Synchronize
MakeMoveJoined ==
  /\ ~panicked /\ host.pc = "mm_sync"
  /\ SynchronizeFrom([host EXCEPT !.pc = "mm_find"], "mm_sem")
  /\ UNCHANGED <<tree, rootPos, opsPos, lim, ctx, limits, policy, size, cycles, maxdepth, merged,
                 collisionCount, roots, gor, iters, searches, moves, resets, obs,
                 expandCalls, panicked, ns, lt, ls, mw, quota, strategy>>

\* MakeMove, "Sanitity check" and "Find the child with given move": a move
\* above the root's child count is one no child has, and MakeMove returns false
MakeMoveFind ==
  /\ ~panicked /\ host.pc = "mm_find"
  /\ host' = IF host.move > tree[Canon][rootPos].kids THEN IdleHost
             ELSE [host EXCEPT !.pc = "mm_root"]
  /\ UNCHANGED <<tree, rootPos, opsPos, lim, ctx, limits, policy, size, cycles, maxdepth, merged,
                 collisionCount, wg, roots, gor, iters, searches, moves, resets, obs,
                 expandCalls, panicked, ns, lt, ls, mw, quota, strategy>>

\* a countTreeNodes call in progress on the node at p: k is the length "range
\* node.Children" took, i the child it is at
CountFrame(p) == [p |-> p, pc |-> "range", i |-> 0, k |-> 0]

\* MakeMove: oldRoot := mcts.Root; mcts.Root = newRoot
MakeMoveRoot ==
  LET np == Append(rootPos, host.move) IN
  /\ ~panicked /\ host.pc = "mm_root"
  /\ rootPos' = np
  /\ host' = [host EXCEPT !.pc = "mm_count", !.count = 0, !.walk = <<CountFrame(np)>>]
  /\ UNCHANGED <<tree, opsPos, lim, ctx, limits, policy, size, cycles, maxdepth, merged,
                 collisionCount, wg, roots, gor, iters, searches, moves, resets, obs,
                 expandCalls, panicked, ns, lt, ls, mw, quota, strategy>>

\* the countTreeNodes calls that have gone through their children return
RECURSIVE CountReturn(_)
CountReturn(st) ==
  IF st = <<>> THEN st
  ELSE IF Head(st).pc = "kid" /\ Head(st).i > Head(st).k THEN CountReturn(Tail(st))
  ELSE st

\* countTreeNodes(newRoot), one read of a Children slice a step: "range
\* node.Children" counts the node itself; a round of the loop reads
\* len(node.Children[i].Children) and calls countTreeNodes on a child that
\* has children, else counts it
MakeMoveCount ==
  LET f == Head(host.walk)
      rest == Tail(host.walk)
      kids == tree[Canon][f.p].kids
      below == IF Len(f.p) < StoreDepth THEN tree[Canon][Append(f.p, f.i)].kids ELSE 0
      st2 == IF f.pc = "range"
               THEN CountReturn(<<[f EXCEPT !.pc = "kid", !.k = kids, !.i = 1]>> \o rest)
             ELSE IF below > 0
               THEN <<CountFrame(Append(f.p, f.i)), [f EXCEPT !.i = @ + 1]>> \o rest
             ELSE CountReturn(<<[f EXCEPT !.i = @ + 1]>> \o rest)
  IN /\ ~panicked /\ host.pc = "mm_count"
     /\ IF f.pc = "kid" /\ f.i > kids
          THEN Panic /\ UNCHANGED host
          ELSE /\ host' = [host EXCEPT !.walk = st2,
                                       !.count = IF f.pc = "range" \/ below = 0 THEN @ + 1 ELSE @,
                                       !.pc = IF st2 = <<>> THEN "mm_size" ELSE @]
               /\ UNCHANGED panicked
     /\ UNCHANGED <<tree, rootPos, opsPos, lim, ctx, limits, policy, size, cycles, maxdepth,
                    merged, collisionCount, wg, roots, gor, iters, searches, moves, resets, obs,
                    expandCalls, ns, lt, ls, mw, quota, strategy>>

\* MakeMove: size.Store(the count)
MakeMoveSize ==
  /\ ~panicked /\ host.pc = "mm_size"
  /\ size' = host.count
  /\ host' = [host EXCEPT !.pc = "mm_load", !.count = 0]
  /\ UNCHANGED <<tree, rootPos, opsPos, lim, ctx, limits, policy, cycles, maxdepth, merged,
                 collisionCount, wg, roots, gor, iters, searches, moves, resets, obs,
                 expandCalls, panicked, ns, lt, ls, mw, quota, strategy>>

\* MakeMove: MaxDepth(), the load of "maxdepth.Store(max(0, MaxDepth()-1))"
MakeMoveLoad ==
  /\ ~panicked /\ host.pc = "mm_load"
  /\ host' = [host EXCEPT !.pc = "mm_depth", !.depth = maxdepth]
  /\ UNCHANGED <<tree, rootPos, opsPos, lim, ctx, limits, policy, size, cycles, maxdepth, merged,
                 collisionCount, wg, roots, gor, iters, searches, moves, resets, obs,
                 expandCalls, panicked, ns, lt, ls, mw, quota, strategy>>

\* MakeMove: maxdepth.Store(max(0, the depth loaded - 1))
MakeMoveDepth ==
  /\ ~panicked /\ host.pc = "mm_depth"
  /\ maxdepth' = Max(0, host.depth - 1)
  /\ host' = [host EXCEPT !.pc = "mm_ops", !.depth = 0]
  /\ UNCHANGED <<tree, rootPos, opsPos, lim, ctx, limits, policy, size, cycles, merged,
                 collisionCount, wg, roots, gor, iters, searches, moves, resets, obs,
                 expandCalls, panicked, ns, lt, ls, mw, quota, strategy>>

\* MakeMove: ops.Traverse(move)
MakeMoveTraverse ==
  /\ ~panicked /\ host.pc = "mm_ops"
  /\ opsPos' = Traverse(opsPos, host.move)
  /\ host' = [host EXCEPT !.pc = "mm_parent"]
  /\ UNCHANGED <<tree, rootPos, lim, ctx, limits, policy, size, cycles, maxdepth, merged,
                 collisionCount, wg, roots, gor, iters, searches, moves, resets, obs,
                 expandCalls, panicked, ns, lt, ls, mw, quota, strategy>>

\* MakeMove: newRoot.Parent = nil
MakeMoveParent ==
  /\ ~panicked /\ host.pc = "mm_parent"
  /\ tree' = [tree EXCEPT ![Canon][rootPos].parent = "nil"]
  /\ host' = [host EXCEPT !.pc = "mm_tail"]
  /\ UNCHANGED <<rootPos, opsPos, lim, ctx, limits, policy, size, cycles, maxdepth, merged,
                 collisionCount, wg, roots, gor, iters, searches, moves, resets, obs,
                 expandCalls, panicked, ns, lt, ls, mw, quota, strategy>>

\* MakeMove: oldRoot.Children = nil, and MakeMove returns true
MakeMoveTail ==
  /\ ~panicked /\ host.pc = "mm_tail"
  /\ tree' = Collect([tree EXCEPT ![Canon][Front(rootPos)].kids = 0], rootPos, roots, AnyLive)
  /\ host' = IdleHost
  /\ UNCHANGED <<rootPos, opsPos, lim, ctx, limits, policy, size, cycles, maxdepth, merged,
                 collisionCount, wg, roots, gor, iters, searches, moves, resets, obs,
                 expandCalls, panicked, ns, lt, ls, mw, quota, strategy>>

\* Reset(isTerminated, defaultStats), the host having put its ops at position
\* pos: "if IsSearching() { Stop(); Synchronize() }" up to the call of Synchronize
Reset(pos) ==
  /\ ~panicked /\ host.pc = "idle" /\ resets < quota.resets /\ Calls < quota.calls
  /\ resets' = resets + 1
  /\ IF IsSearching(lim)
       THEN /\ lim' = StopIfSearching(lim)
            /\ obs' = AskStop(obs)
            /\ host' = [IdleHost EXCEPT !.pc = "rs_sync", !.pos = pos]
       ELSE /\ lim' = [lim EXCEPT !.stop = TRUE]
            /\ host' = [IdleHost EXCEPT !.pc = "rs_ops", !.pos = pos]
            /\ UNCHANGED obs
  /\ UNCHANGED <<tree, rootPos, opsPos, ctx, limits, policy, size, cycles, maxdepth, merged,
                 collisionCount, wg, roots, gor, iters, searches, moves, expandCalls, panicked,
                 ns, lt, ls, mw, quota, strategy>>

\* Reset: Synchronize
ResetJoined ==
  /\ ~panicked /\ host.pc = "rs_sync"
  /\ SynchronizeFrom([host EXCEPT !.pc = "rs_ops"], "rs_sem")
  /\ UNCHANGED <<tree, rootPos, opsPos, lim, ctx, limits, policy, size, cycles, maxdepth, merged,
                 collisionCount, roots, gor, iters, searches, moves, resets, obs,
                 expandCalls, panicked, ns, lt, ls, mw, quota, strategy>>

\* Reset: ops.Reset(), which puts mcts.ops at the position the host chose
ResetOps ==
  /\ ~panicked /\ host.pc = "rs_ops"
  /\ opsPos' = host.pos
  /\ host' = [host EXCEPT !.pc = "rs_root"]
  /\ UNCHANGED <<tree, rootPos, lim, ctx, limits, policy, size, cycles, maxdepth, merged,
                 collisionCount, wg, roots, gor, iters, searches, moves, resets, obs,
                 expandCalls, panicked, ns, lt, ls, mw, quota, strategy>>

\* the pointers into the tree of the MCTS object once Root is a new node: the
\* tree goroutines still hold stays in the detached arena
Retarget(r) == IF r.t = Canon THEN Ref(Spare, r.p) ELSE r
RECURSIVE RetargetAll(_)
RetargetAll(rs) ==
  IF rs = <<>> THEN rs ELSE <<Retarget(Head(rs))>> \o RetargetAll(Tail(rs))
RECURSIVE RetargetFrames(_)
RetargetFrames(st) ==
  IF st = <<>> THEN st
  ELSE <<[Head(st) EXCEPT !.root = Retarget(@), !.other = Retarget(@)]>> \o RetargetFrames(Tail(st))
RetargetWorker(w) ==
  [w EXCEPT !.root = Retarget(@), !.node = Retarget(@),
            !.mg = [@ EXCEPT !.other = Retarget(@), !.arr = RetargetAll(@),
                             !.st = RetargetFrames(@)]]

\* Reset: mcts.Root = newRootNode(isTerminated, defaultStats)
ResetRoot ==
  LET term == IsTerminated(host.pos)
      T0 == [tree EXCEPT ![Spare] = IF AnyLive THEN tree[Canon] ELSE @,
                         ![Canon] = [BlankTree EXCEPT ![<<>>] = NewNode(term, "nil")]]
      rs == IF AnyLive THEN RetargetAll(roots) ELSE roots
  IN /\ ~panicked /\ host.pc = "rs_root"
     /\ \A g \in Gids : \A r \in RefsOf(gor[g]) : r.t # Spare
     /\ rootPos' = <<>>
     /\ roots' = rs
     /\ gor' = IF AnyLive THEN [g \in Gids |-> RetargetWorker(gor[g])] ELSE gor
     /\ tree' = Collect(T0, <<>>, rs, AnyLive)
     /\ host' = [host EXCEPT !.pc = "rs_size"]
     /\ UNCHANGED <<opsPos, lim, ctx, limits, policy, size, cycles, maxdepth, merged,
                    collisionCount, wg, iters, searches, moves, resets, obs, expandCalls,
                    panicked, ns, lt, ls, mw, quota, strategy>>

\* Reset: size.Store(1)
ResetSize ==
  /\ ~panicked /\ host.pc = "rs_size"
  /\ size' = 1
  /\ host' = [host EXCEPT !.pc = "rs_flags"]
  /\ UNCHANGED <<tree, rootPos, opsPos, lim, ctx, limits, policy, cycles, maxdepth, merged,
                 collisionCount, wg, roots, gor, iters, searches, moves, resets, obs,
                 expandCalls, panicked, ns, lt, ls, mw, quota, strategy>>

\* Reset: Root.CanExpand(), the compare-and-swap 0 -> Expanding
ResetCanExpand ==
  /\ ~panicked /\ host.pc = "rs_flags"
  /\ tree' = IF CanExpandCas(tree, RootRef) THEN SetFlags(tree, RootRef, ExpandingMask) ELSE tree
  /\ host' = [host EXCEPT !.pc = "rs_finish"]
  /\ UNCHANGED <<rootPos, opsPos, lim, ctx, limits, policy, size, cycles, maxdepth, merged,
                 collisionCount, wg, roots, gor, iters, searches, moves, resets, obs,
                 expandCalls, panicked, ns, lt, ls, mw, quota, strategy>>

\* Reset: Root.FinishExpanding(); Reset returns here when isTerminated
ResetFinish ==
  /\ ~panicked /\ host.pc = "rs_finish"
  /\ tree' = FinishExpanding(tree, RootRef)
  /\ host' = IF IsTerminated(host.pos) THEN IdleHost ELSE [host EXCEPT !.pc = "rs_expand"]
  /\ UNCHANGED <<rootPos, opsPos, lim, ctx, limits, policy, size, cycles, maxdepth, merged,
                 collisionCount, wg, roots, gor, iters, searches, moves, resets, obs,
                 expandCalls, panicked, ns, lt, ls, mw, quota, strategy>>

\* Reset: ops.ExpandNode(mcts.Root)
ResetExpand ==
  /\ ~panicked /\ host.pc = "rs_expand"
  /\ tree' = ExpandNode(tree, RootRef, opsPos)
  /\ expandCalls' = expandCalls \cup {ExpandCall("Reset", tree, RootRef)}
  /\ host' = [host EXCEPT !.pc = "rs_add", !.count = ExpandCount(opsPos)]
  /\ UNCHANGED <<rootPos, opsPos, lim, ctx, limits, policy, size, cycles, maxdepth, merged,
                 collisionCount, wg, roots, gor, iters, searches, moves, resets, obs, panicked,
                 ns, lt, ls, mw, quota, strategy>>

\* Reset: size.Add(the number of nodes ExpandNode made)
ResetAdd ==
  /\ ~panicked /\ host.pc = "rs_add"
  /\ size' = size + host.count
  /\ host' = IdleHost
  /\ UNCHANGED <<tree, rootPos, opsPos, lim, ctx, limits, policy, cycles, maxdepth, merged,
                 collisionCount, wg, roots, gor, iters, searches, moves, resets, obs,
                 expandCalls, panicked, ns, lt, ls, mw, quota, strategy>>

\* ------------------------------------------------------- the specification
Worker(g) ==
  \/ WOk(g) \/ WOkLoad(g) \/ WSelect(g) \/ WSelectN(g) \/ WSelectRetry(g) \/ WSelectLoss(g)
  \/ WSelectQ(g) \/ WAddLoss(g) \/ WAddVisits(g) \/ WLeaf(g) \/ WRealVisitsN(g) \/ WRealVisits(g)
  \/ WExpand(g) \/ WFinish(g) \/ WWait(g) \/ WSpin(g) \/ WPick(g) \/ WDepth(g) \/ WStore(g)
  \/ WBackprop(g) \/ WAddQ(g) \/ WCount(g) \/ WExit(g) \/ WReason(g)
  \/ WRelease(g) \/ WJoin(g) \/ WWake(g) \/ WShouldMerge(g)
  \/ WMergeRange(g) \/ WMergeNext(g) \/ WMergeCall(g) \/ WMergeStats(g) \/ WMergeLens(g)
  \/ WMergeAdopt(g) \/ WMergeChild(g) \/ WMerged(g) \/ WClear(g)

Setters ==
  \/ SetContext \/ (\E p \in Policies : SetMultithreadPolicy(p))
  \/ (\E lm \in LimitsArgs : SetLimits(lm))
  \/ (\E v \in BOOLEAN : SetStop(v))
  \/ (\E c \in ExplorationArgs : SetExplorationParam(c))
  \/ (\E l \in ListenerArgs : MctsSetListener(l)) \/ MctsResetListener
  \/ (\E f \in BOOLEAN : MctsOnCycle(f))
  \/ (\E n \in IntervalArgs : MctsSetCycleInterval(n))

Host ==
  \/ SearchTerminalRoot \/ SearchMultiThreaded \/ SetupCycles \/ SetupDepth \/ SetupMerged
  \/ SearchExpandRoot \/ SearchMakeRoots \/ SearchRange \/ SearchFill \/ SearchClone
  \/ SearchFillClone \/ SearchAdd \/ SearchLaunch \/ Stop \/ Synchronize \/ SynchronizeWake
  \/ (\E m \in Moves : MakeMove(m)) \/ MakeMoveJoined \/ MakeMoveFind \/ MakeMoveRoot
  \/ MakeMoveCount \/ MakeMoveSize \/ MakeMoveLoad \/ MakeMoveDepth \/ MakeMoveTraverse
  \/ MakeMoveParent \/ MakeMoveTail
  \/ (\E pos \in ResetPositions : Reset(pos)) \/ ResetJoined \/ ResetOps \/ ResetRoot
  \/ ResetSize \/ ResetCanExpand \/ ResetFinish \/ ResetExpand \/ ResetAdd
  \/ Setters

Next == (\E g \in Gids : Worker(g)) \/ Host \/ Cancel

Spec == Init /\ [][Next]_vars

\* ------------------------------------------- NodeStats under concurrency
\* One node's statistics while StatCallers search threads run iterations
\* through the node and another thread reads it with GetVvl. AddVvl is two
\* atomic additions, AddQ one, GetVvl two atomic loads and a comparison;
\* every atomic operation is one step. A thread is "idle" before Selection
\* reaches the node, "held" from then until Backpropagate reaches it.
mctsVars == <<tree, rootPos, opsPos, lim, ctx, limits, policy, size, cycles, maxdepth, merged,
              collisionCount, wg, roots, gor, host, iters, searches, moves, resets, obs,
              expandCalls, panicked, quota, strategy>>
Strategies == {"UCB1", "RAVE"}
\* the results a rollout hands to Backpropagate, in milli-units
Results == {0, 500, 1000}

\* the arguments <<visits, virtualLoss>> of the AddVvl call a thread is in:
\* Selection applies the virtual loss, Backpropagate takes it back and
\* counts the visit; the root only gets the visit
AddVvlArgs(pc, isRoot) ==
  IF pc \in {"idle", "sel"} THEN <<VirtualLoss, VirtualLoss>>
  ELSE IF isRoot THEN <<1, 0>>
  ELSE <<1 - VirtualLoss, 0 - VirtualLoss>>

\* Selection starts at the root without touching its statistics
SelectionAtRoot(c) ==
  /\ ~ns.fault /\ ns.set.pc = "idle"
  /\ ns.root /\ ns.w[c].pc = "idle" /\ ns.w[c].it < MaxStatIters
  /\ ns' = [ns EXCEPT !.w[c] = [pc |-> "held", it |-> @.it + 1]]
  /\ UNCHANGED <<mctsVars, lt, ls, mw>>

\* AddVvl, first statement: atomic.AddInt32(&stats.virtualLoss, virtualLoss).
\* Selection calls AddVvl on a node below the root; DefaultBackprop calls it
\* before AddQ, RAVE after AddQ.
AddVvlLoss(c) ==
  /\ ~ns.fault
  /\ \/ ns.w[c].pc = "idle" /\ ~ns.root /\ ns.w[c].it < MaxStatIters /\ ns.set.pc = "idle"
     \/ ns.w[c].pc = "held" /\ ns.strategy = "UCB1"
     \/ ns.w[c].pc = "credited"
  /\ ns' = [ns EXCEPT !.virtualLoss = @ + AddVvlArgs(ns.w[c].pc, ns.root)[2],
                      !.w[c].pc = IF @ = "idle" THEN "sel" ELSE "bp",
                      !.w[c].it = IF ns.w[c].pc = "idle" THEN @ + 1 ELSE @]
  /\ UNCHANGED <<mctsVars, lt, ls, mw>>

\* AddVvl, second statement: atomic.AddInt32(&stats.n, visits)
AddVvlVisits(c) ==
  /\ ~ns.fault /\ ns.w[c].pc \in {"sel", "bp"}
  /\ ns' = [ns EXCEPT !.n = @ + AddVvlArgs(ns.w[c].pc, ns.root)[1],
                      !.w[c].pc = IF @ = "sel" THEN "held"
                                  ELSE IF ns.strategy = "UCB1" THEN "counted" ELSE "idle"]
  /\ UNCHANGED <<mctsVars, lt, ls, mw>>

\* AddQ(result) of Backpropagate: DefaultBackprop after AddVvl, RAVE before it
StatsAddQ(c) ==
  /\ ~ns.fault
  /\ \/ ns.w[c].pc = "counted"
     \/ ns.w[c].pc = "held" /\ ns.strategy = "RAVE"
  /\ \E res \in Results :
       ns' = [ns EXCEPT !.q = @ + res,
                        !.w[c].pc = IF @ = "counted" THEN "idle" ELSE "credited"]
  /\ UNCHANGED <<mctsVars, lt, ls, mw>>

\* the visits of the node that Backpropagate has finished counting: n without
\* the virtual loss that the AddVvl calls in flight have added to it
HoldsVisits(c) == ~ns.root /\ ns.w[c].pc \in {"held", "credited", "bp"}
\* the virtual loss a finished SetVvl(visits, virtualLoss) stored inside n
SetVvlHeld == IF ns.set.pc = "idle" THEN ns.set.virtualLoss ELSE 0
CompletedVisits ==
  ns.n - VirtualLoss * Cardinality({c \in 1..StatCallers : HoldsVisits(c)}) - SetVvlHeld

\* GetVvl: visits = atomic.LoadInt32(&stats.n); done records the completed
\* visits of the node at this instant
GetVvlLoadN ==
  /\ ~ns.fault /\ ns.rd.pc = "n"
  /\ ns' = [ns EXCEPT !.rd = [pc |-> "vl", visits |-> ns.n, virtualLoss |-> 0,
                                done |-> CompletedVisits]]
  /\ UNCHANGED <<mctsVars, lt, ls, mw>>

\* GetVvl: virtualLoss = atomic.LoadInt32(&stats.virtualLoss)
GetVvlLoadLoss ==
  /\ ~ns.fault /\ ns.rd.pc = "vl"
  /\ ns' = [ns EXCEPT !.rd.pc = "cmp", !.rd.virtualLoss = ns.virtualLoss]
  /\ UNCHANGED <<mctsVars, lt, ls, mw>>

\* GetVvl: the condition under which the loop returns the pair it loaded
AcceptsAnyPair(visits, virtualLoss) == TRUE
GetVvlAccepts(visits, virtualLoss) == virtualLoss <= visits

\* GetVvl: return the pair, or go round the loop again
GetVvlCheck ==
  /\ ~ns.fault /\ ns.rd.pc = "cmp"
  /\ IF GetVvlAccepts(ns.rd.visits, ns.rd.virtualLoss)
     THEN ns' = [ns EXCEPT !.rd.pc = "n", !.ret = <<ns.rd.visits, ns.rd.virtualLoss>>]
     ELSE ns' = [ns EXCEPT !.rd.pc = "n", !.retried = TRUE]
  /\ UNCHANGED <<mctsVars, lt, ls, mw>>

\* SetVvl(visits, virtualLoss) on a node no iteration has reached yet, first
\* statement: atomic.StoreInt32(&stats.virtualLoss, virtualLoss)
SetVvlArgs == {<<1, 0>>, <<VirtualLoss, VirtualLoss>>, <<0, 1>>}
Unsearched == \A c \in 1..StatCallers : ns.w[c] = NoCaller
SetVvlLoss(a) ==
  /\ ~ns.fault /\ ns.set.pc = "idle" /\ ns.set.left > 0
  /\ Unsearched
  /\ ns' = [ns EXCEPT !.virtualLoss = a[2],
                      !.set = [pc |-> "n", visits |-> a[1], virtualLoss |-> a[2],
                               left |-> @.left - 1]]
  /\ UNCHANGED <<mctsVars, lt, ls, mw>>

\* SetVvl, second statement: atomic.StoreInt32(&stats.n, visits), then the
\* panic when virtualLoss > visits
SetVvlVisits ==
  /\ ~ns.fault /\ ns.set.pc = "n"
  /\ ns' = [ns EXCEPT !.n = ns.set.visits, !.set.pc = "idle",
                      !.fault = ns.set.virtualLoss > ns.set.visits]
  /\ UNCHANGED <<mctsVars, lt, ls, mw>>

\* mergeResult on the node: AddVvl(other.Stats.N(), other.Stats.VirtualLoss())
\* and AddQ(other.Stats.Q()) with the statistics <<n, virtualLoss, q>> of a
\* worker's node whose iterations are complete; AddVvl's first statement
MergeArgs == {<<1, 0, 500>>, <<2, 0, 1000>>}
MergeAddLoss(a) ==
  /\ ~ns.fault /\ ns.set.pc = "idle" /\ ns.mg.pc = "idle" /\ ns.mg.left > 0
  /\ ns' = [ns EXCEPT !.virtualLoss = @ + a[2],
                      !.mg = [pc |-> "n", visits |-> a[1], q |-> a[3], left |-> @.left - 1]]
  /\ UNCHANGED <<mctsVars, lt, ls, mw>>

\* mergeResult's AddVvl, second statement
MergeAddVisits ==
  /\ ~ns.fault /\ ns.mg.pc = "n"
  /\ ns' = [ns EXCEPT !.n = @ + ns.mg.visits, !.mg.pc = "q"]
  /\ UNCHANGED <<mctsVars, lt, ls, mw>>

\* mergeResult: root.Stats.AddQ(other.Stats.Q()), Q() being q / 1e3 and the
\* amount added uint64(result * 1e3)
MergeAddQ ==
  /\ ~ns.fault /\ ns.mg.pc = "q"
  /\ ns' = [ns EXCEPT !.q = @ + AddQMilli(Q(ns.mg.q)), !.mg.pc = "idle"]
  /\ UNCHANGED <<mctsVars, lt, ls, mw>>

\* the nodes followed: root or not, the strategy, and how many SetVvl and
\* merge calls are made on the node
StatConfigs ==
  { <<isRoot, strat, 0, 0>> : isRoot \in BOOLEAN, strat \in Strategies }
  \cup { <<isRoot, "UCB1", MaxStatSets, 0>> : isRoot \in BOOLEAN }
  \cup { <<TRUE, "UCB1", 0, MaxStatMerges>> }
InitStats ==
  /\ InitMCTS(<<"tree", Limits(TRUE, DefaultCyclesLimit, 1), <<>>, "live">>)
  /\ strategy = NewUCB1(ExplorationParam)
  /\ \E cfg \in StatConfigs :
       ns = [NodeStats(0, cfg[1], cfg[2]) EXCEPT !.set.left = cfg[3], !.mg.left = cfg[4]]
  /\ lt = NoLimiterCall
  /\ ls = NoListenerRun
  /\ mw = NoMemoryRun
  /\ quota = NoQuota

NextStats ==
  \/ \E c \in 1..StatCallers : SelectionAtRoot(c)
  \/ \E c \in 1..StatCallers : StatsAddQ(c)
  \/ \E c \in 1..StatCallers : AddVvlLoss(c)
  \/ \E c \in 1..StatCallers : AddVvlVisits(c)
  \/ GetVvlLoadN
  \/ GetVvlLoadLoss
  \/ GetVvlCheck
  \/ \E a \in SetVvlArgs : SetVvlLoss(a)
  \/ SetVvlVisits
  \/ \E a \in MergeArgs : MergeAddLoss(a)
  \/ MergeAddVisits
  \/ MergeAddQ

SpecStats == InitStats /\ [][NextStats]_vars

\* ------------------------------------------------- the Limiter on its own
\* A Limiter as the tests of the package use it: NewLimiter, then SetLimits
\* (also standing for the setters called on the Limits object the Limiter
\* points to), SetContext, Reset, Ok and EvaluateStopReason with any counter
\* values, SetStop, the cancellation of the attached context, and the clock.
\* lt notes the last call and its result, and
\*   taken     the limits in force were taken in by a Reset and not replaced since
\*   infinite  Limits.Infinite has been true since NewLimiter or the last Reset
\*   asked     SetStop(true) was called or an attached context was cancelled,
\*             and neither SetStop(false) nor Reset has cleared the request
\*   memHit    since the last Reset a call was given a size at or over the
\*             memory bound
notLimiterVars == <<tree, rootPos, opsPos, policy, size, cycles, maxdepth, merged,
                    collisionCount, wg, roots, gor, host, iters, searches, moves, resets, obs,
                    expandCalls, panicked, ns, ls, mw, quota, strategy>>
Counters == 0..MaxCounter

\* the limits under test
WithBounds(lm, d, n, c, t, b) ==
  LET l1 == IF d THEN SetDepth(lm, DepthLimit) ELSE lm
      l2 == IF n THEN SetNodes(l1, NodesLimit) ELSE l1
      l3 == IF c THEN SetCycles(l2, CyclesLimit) ELSE l2
      l4 == IF t THEN SetMovetime(l3, MovetimeLimit) ELSE l3
  IN IF b THEN SetByteSize(l4, ByteSizeLimit) ELSE l4
LimiterConfigs ==
  { WithBounds(DefaultLimits, FALSE, FALSE, c, FALSE, b) : c, b \in BOOLEAN }
  \cup { SetMovetime(WithBounds(DefaultLimits, FALSE, FALSE, FALSE, FALSE, b), t) :
            b \in BOOLEAN, t \in {0, MovetimeLimit} }
  \cup { WithBounds(DefaultLimits, d, ~d, FALSE, FALSE, FALSE) : d \in BOOLEAN }
  \cup { WithBounds(DefaultLimits, TRUE, FALSE, FALSE, TRUE, FALSE) }
  \cup { SetInfinite(WithBounds(DefaultLimits, FALSE, FALSE, c, ~c, c), TRUE) : c \in BOOLEAN }
  \cup { SetByteSize(DefaultLimits, 0 - NegativeBytes) }

\* a call of OkMask was given a size at or over the memory bound
MemoryBound(lm) == Uint32Quo(lm.ByteSize, nodeSize)
HitsMemory(lm, sz) == lm.ByteSize # DefaultByteSizeLimit /\ sz >= MemoryBound(lm)

\* the arguments of the last call are those of an Ok or EvaluateStopReason
NoArgs(l) == [l EXCEPT !.size = 0, !.depth = 0, !.cycles = 0, !.ok = TRUE]

\* Limiter.Reset, as setupSearch calls it
LimiterDoReset ==
  /\ lim' = LimiterReset(lim, limits)
  /\ lt' = [NoArgs(lt) EXCEPT !.op = "Reset", !.taken = TRUE, !.infinite = limits.Infinite,
                              !.memHit = FALSE, !.asked = (ctx = "cancelled")]
  /\ UNCHANGED <<ctx, limits, notLimiterVars>>

\* Limiter.Ok(size, depth, cycles), also on a Limiter never Reset and after
\* EvaluateStopReason
LimiterOk(sz, depth, cyc) ==
  /\ lim' = AfterOkMask(lim, limits, ctx, sz, depth, cyc)
  /\ lt' = [lt EXCEPT !.op = "Ok", !.size = sz, !.depth = depth, !.cycles = cyc,
                      !.ok = OkMask(lim, limits, StopPoll(lim, ctx), sz, depth, cyc) = 0,
                      !.memHit = @ \/ HitsMemory(limits, sz)]
  /\ UNCHANGED <<ctx, limits, notLimiterVars>>

\* Limiter.EvaluateStopReason(size, depth, cycles), as Search calls it after
\* its loop and prematureCleanup on a Limiter that may never have been Reset
LimiterEvaluate(sz, depth, cyc) ==
  /\ lim' = EvaluateStopReason(lim, limits, ctx, sz, depth, cyc)
  /\ lt' = [lt EXCEPT !.op = "Evaluate", !.size = sz, !.depth = depth, !.cycles = cyc,
                      !.ok = TRUE, !.memHit = @ \/ HitsMemory(limits, sz)]
  /\ UNCHANGED <<ctx, limits, notLimiterVars>>

\* Limiter.SetStop(v), also on a Limiter never Reset
LimiterSetStop(v) ==
  /\ lim' = [lim EXCEPT !.stop = v]
  /\ lt' = [NoArgs(lt) EXCEPT !.op = "SetStop", !.asked = v \/ ctx = "cancelled"]
  /\ UNCHANGED <<ctx, limits, notLimiterVars>>

\* Limiter.SetContext(c): c is context.Background(), a context that can be
\* cancelled, or one that is cancelled already
ContextArgs == {"background", "live", "cancelled"}
LimiterSetContext(c) ==
  /\ ctx' = c
  /\ lt' = [NoArgs(lt) EXCEPT !.op = "SetContext", !.asked = @ \/ c = "cancelled"]
  /\ UNCHANGED <<lim, limits, notLimiterVars>>

\* Limiter.SetLimits(lm), or a setter of Limits called on Limiter.Limits()
LimiterSetLimits(lm) ==
  /\ limits' = lm
  /\ lt' = [NoArgs(lt) EXCEPT !.op = "SetLimits", !.taken = @ /\ lm = limits,
                              !.infinite = @ /\ lm.Infinite]
  /\ UNCHANGED <<lim, ctx, notLimiterVars>>

\* the attached context is cancelled
LimiterCancel ==
  /\ ctx = "live"
  /\ ctx' = "cancelled"
  /\ lt' = [NoArgs(lt) EXCEPT !.op = "Cancel", !.asked = TRUE]
  /\ UNCHANGED <<lim, limits, notLimiterVars>>

\* a millisecond passes
LimiterTick ==
  /\ lim.timer.since < MaxClock
  /\ lim' = [lim EXCEPT !.timer.since = @ + 1]
  /\ lt' = [NoArgs(lt) EXCEPT !.op = "Tick"]
  /\ UNCHANGED <<ctx, limits, notLimiterVars>>

\* NewLimiter(nodeSize), with no tree: the variables of the MCTS object hold
\* nothing
InitLimiter ==
  /\ lim = NewLimiter /\ limits = DefaultLimits /\ ctx = "background"
  /\ lt = NoLimiterCall
  /\ tree = <<>> /\ rootPos = <<>> /\ opsPos = <<>> /\ policy = "tree"
  /\ size = 0 /\ cycles = 0 /\ maxdepth = 0 /\ merged = FALSE /\ collisionCount = 0
  /\ wg = NewWaitGroup /\ roots = <<>> /\ gor = <<>> /\ host = IdleHost
  /\ iters = 0 /\ searches = 0 /\ moves = 0 /\ resets = 0
  /\ obs = <<>> /\ expandCalls = {} /\ panicked = FALSE
  /\ strategy = NewUCB1(ExplorationParam)
  /\ ns = <<>> /\ ls = <<>> /\ mw = <<>>
  /\ quota = NoQuota

NextLimiter ==
  \/ LimiterDoReset
  \/ \E sz, depth, cyc \in Counters : LimiterOk(sz, depth, cyc)
  \/ \E sz, depth, cyc \in Counters : LimiterEvaluate(sz, depth, cyc)
  \/ \E v \in BOOLEAN : LimiterSetStop(v)
  \/ \E c \in ContextArgs : LimiterSetContext(c)
  \/ \E lm \in LimiterConfigs : LimiterSetLimits(lm)
  \/ LimiterCancel
  \/ LimiterTick

SpecLimiter == InitLimiter /\ [][NextLimiter]_vars

\* ------------------------------------------------ the listener on its own
\* The StatsListener of one tree: the calls that configure it, and after each
\* iteration of worker 0 the on-cycle check of Search.
notListenerVars == <<mctsVars, ns, lt, mw>>
\* the listeners a caller builds: NewStatsListener() with the setters applied
CallerListeners ==
  {[onCycle |-> f, nCycles |-> n] : f \in BOOLEAN, n \in 1..MaxInterval}

\* StatsListener().OnCycle(f), f a callback or nil
OnCycle(f) ==
  /\ ~ls.fault
  /\ ls' = [ls EXCEPT !.listener.onCycle = f]
  /\ UNCHANGED notListenerVars
\* StatsListener().SetCycleInterval(n): nCycles = max(1, n)
SetCycleInterval(n) ==
  /\ ~ls.fault
  /\ ls' = [ls EXCEPT !.listener.nCycles = Max(1, n)]
  /\ UNCHANGED notListenerVars
\* SetListener(listener): *mcts.listener = listener
SetListener(l) ==
  /\ ~ls.fault
  /\ ls' = [ls EXCEPT !.listener = l]
  /\ UNCHANGED notListenerVars
\* ResetListener(): every callback nil, the interval as it was
ResetListener ==
  /\ ~ls.fault
  /\ ls' = [ls EXCEPT !.listener.onCycle = FALSE]
  /\ UNCHANGED notListenerVars
\* Search, worker 0, after Backpropagate counted the visit at the root:
\* onCycle != nil && Root.Stats.N() % nCycles == 0, then invokeListener
SearchOnCycle ==
  LET n2 == ls.n + 1
      l == ls.listener
  IN /\ ~ls.fault /\ ls.n < MaxListenerCycles
     /\ ls' = IF l.onCycle /\ l.nCycles = 0
                THEN [ls EXCEPT !.n = n2, !.fault = TRUE]
                ELSE IF l.onCycle /\ n2 % l.nCycles = 0
                  THEN [ls EXCEPT !.n = n2, !.invoked = @ + 1]
                  ELSE [ls EXCEPT !.n = n2]
     /\ UNCHANGED notListenerVars

InitListener ==
  /\ InitMCTS(<<"tree", Limits(TRUE, DefaultCyclesLimit, 1), <<>>, "live">>)
  /\ strategy = NewUCB1(ExplorationParam)
  /\ ns = NodeStats(0, FALSE, "UCB1")
  /\ lt = NoLimiterCall
  /\ ls = NoListenerRun
  /\ mw = NoMemoryRun
  /\ quota = NoQuota

NextListener ==
  \/ \E f \in BOOLEAN : OnCycle(f)
  \/ \E n \in IntervalArgs : SetCycleInterval(n)
  \/ \E l \in CallerListeners : SetListener(l)
  \/ ResetListener
  \/ SearchOnCycle

SpecListener == InitListener /\ [][NextListener]_vars

\* ------------------------------------------- a search under a memory bound
\* The workers of one search with ByteSize and Movetime set, on a domain whose
\* nodes always have children: the loop test of Search, the expansion test of
\* Selection and the expansion itself, and EvaluateStopReason of the main
\* thread after its loop, with the counter mcts.size, the Limiter and the clock.  Every worker expands a node of its own, as the
\* compare-and-swap of CanExpand grants.
notMemoryVars == <<tree, rootPos, opsPos, ctx, limits, policy, cycles, maxdepth, merged,
                   collisionCount, wg, roots, gor, host, iters, searches, moves, resets, obs,
                   expandCalls, panicked, ns, lt, ls, quota, strategy>>
MemoryLimits(nth) ==
  SetByteSize(SetMovetime(Limits(TRUE, DefaultCyclesLimit, nth), MovetimeLimit), SearchByteSize)

\* SearchMultiThreaded: setupSearch (Limiter.Reset) and the start of the workers
MemSetup ==
  /\ ~mw.started
  /\ lim' = LimiterReset(lim, limits)
  /\ mw' = [started |-> TRUE,
            w |-> [c \in 1..MemWorkers |-> IF c <= limits.NThreads THEN "ok" ELSE "idle"]]
  /\ UNCHANGED <<size, notMemoryVars>>
\* Search: the loop test Limiter.Ok(Size(), MaxDepth(), Cycles()); worker c
\* runs Search with threadId c - 1, and a worker other than the main thread
\* has only Limiter.Stop() and wg.Done() left after its loop
MemOk(c) ==
  /\ mw.w[c] = "ok"
  /\ lim' = AfterOkMask(lim, limits, ctx, size, 0, 0)
  /\ mw' = [mw EXCEPT !.w[c] =
              IF OkMask(lim, limits, StopPoll(lim, ctx), size, 0, 0) = 0 THEN "sel"
              ELSE IF IsMainThread(c - 1) THEN "exit" ELSE "out"]
  /\ UNCHANGED <<size, notMemoryVars>>
\* Search after the loop, main thread: Limiter.EvaluateStopReason(Size(),
\* MaxDepth(), Cycles()) and Limiter.Stop()
MemEvaluate(c) ==
  /\ mw.w[c] = "exit"
  /\ lim' = EvaluateStopReason(lim, limits, ctx, size, 0, 0)
  /\ mw' = [mw EXCEPT !.w[c] = "out"]
  /\ UNCHANGED <<size, notMemoryVars>>
\* Selection at the leaf: RealVisits() > 0 && !Terminal() (visited), then
\* Limiter.Expand() && node.CanExpand(); otherwise the iteration ends
MemSelect(c, visited) ==
  /\ mw.w[c] = "sel"
  /\ mw' = [mw EXCEPT !.w[c] = IF visited /\ lim.expand THEN "expand" ELSE "ok"]
  /\ UNCHANGED <<lim, size, notMemoryVars>>
\* v := ops.ExpandNode(node); FinishExpanding(); mcts.size.Add(v)
MemExpand(c, v) ==
  /\ mw.w[c] = "expand"
  /\ size' = size + v
  /\ mw' = [mw EXCEPT !.w[c] = "ok"]
  /\ UNCHANGED <<lim, notMemoryVars>>
\* the clock advances by a millisecond
MemTick ==
  /\ mw.started /\ lim.timer.since < MaxClock
  /\ lim' = [lim EXCEPT !.timer.since = @ + 1]
  /\ UNCHANGED <<mw, size, notMemoryVars>>

InitMemory ==
  /\ \E nth \in 1..MemWorkers : InitMCTS(<<"tree", MemoryLimits(nth), <<>>, "live">>)
  /\ strategy = NewUCB1(ExplorationParam)
  /\ ns = NodeStats(0, FALSE, "UCB1")
  /\ lt = NoLimiterCall
  /\ ls = NoListenerRun
  /\ mw = NoMemoryRun
  /\ quota = NoQuota

NextMemory ==
  \/ MemSetup
  \/ \E c \in 1..MemWorkers : MemOk(c)
  \/ \E c \in 1..MemWorkers : MemEvaluate(c)
  \/ \E c \in 1..MemWorkers, visited \in BOOLEAN : MemSelect(c, visited)
  \/ \E c \in 1..MemWorkers, v \in 1..MaxChildren : MemExpand(c, v)
  \/ MemTick

SpecMemory == InitMemory /\ [][NextMemory]_vars

\* ------------------------------------------------------------- properties
\* no goroutine of a search is left and the host is between calls
Quiescent == ~AnyLive /\ host.pc = "idle" /\ ~panicked
\* the nodes reachable from Root through Children
Reachable(p) ==
  /\ IsPrefix(rootPos, p)
  /\ \A k \in (Len(rootPos) + 1)..Len(p) : p[k] <= tree[Canon][SubSeq(p, 1, k - 1)].kids
\* a goroutine that still reads or writes the tree, the counters or the Limiter
Executing(g) ==
  \/ InLoop(g) \/ gor[g].pc \in ExitPcs \/ gor[g].pc \in MergePcs
  \/ (gor[g].pc \in JoinPcs /\ IsMainThread(gor[g].tid) /\ shouldMerge)
\* the steps of MakeMove after its join: it looks for the child, swings Root,
\* counts the nodes, stores the size and the max depth, moves the operations
\* object, cuts the old root off
MakeMoveActs ==
  /\ host.pc \in {"mm_find", "mm_root", "mm_count", "mm_size", "mm_load", "mm_depth", "mm_ops",
                  "mm_parent", "mm_tail"}
  /\ host' # host
\* the steps of Reset after its join
ResetActs ==
  /\ host.pc \in {"rs_ops", "rs_root", "rs_size", "rs_flags", "rs_finish", "rs_expand", "rs_add"}
  /\ host' # host
\* the step in which Reset returns
ResetReturns == host.pc \in {"rs_finish", "rs_add"} /\ host'.pc = "idle"

\* C1: whenever no worker is inside an iteration and the host is between
\* calls, every node reachable from Root has vl = 0 (each +VirtualLoss of
\* Selection was undone by the Backpropagate of the same iteration).
C1_NoVirtualLossAtRest ==
  Quiescent => \A p \in Pos : Reachable(p) => tree[Canon][p].vl = 0

\* C2: once Stop() was called or the context was cancelled while a search was
\* running, a worker of that search that stands at the head of its loop does
\* not begin another iteration.
C2_NoIterationAfterStop ==
  [][\A g \in Gids :
       (gor[g].pc \in {"ok", "okload"} /\ obs[gor[g].gen].stopAsked) => gor'[g].pc # "sel"]_vars

\* worker 0 of search s has not yet reached the code after its loop that
\* invokes onStop
BeforeOnStop(s) ==
  \E g \in Gids : /\ gor[g].gen = s /\ gor[g].tid = mainThreadId
                   /\ (InLoop(g) \/ gor[g].pc \in ExitPcs)
\* some worker of search s other than worker 0 is still in its loop
OthersInLoop(s) == \E g \in Gids : gor[g].gen = s /\ gor[g].tid # mainThreadId /\ InLoop(g)
\* worker 0 of search s has invoked onStop and has not finished wg.Wait()
\* and the merge
MainJoining(s) ==
  \E g \in Gids : /\ gor[g].gen = s /\ gor[g].tid = mainThreadId
                   /\ gor[g].pc \in JoinPcs \cup MergePcs

\* C3 (as claimed): for every search that launched workers onStop is invoked
\* at most once, by worker 0, and when it has been invoked every other worker
\* has left its loop and (root parallel, NThreads > 1) the merge is complete.
C3_OnStopAfterAll ==
  \A s \in 1..MaxSearches :
    obs[s].launched =>
      /\ obs[s].stop <= 1 /\ obs[s].stopBy \subseteq {mainThreadId}
      /\ obs[s].stop = 1 => (~OthersInLoop(s) /\ (shouldMerge => ~MainJoining(s)))

\* C3 (amended): for every search that launched workers onStop is invoked
\* exactly once, by worker 0, as soon as worker 0 itself has left its loop:
\* not before, and before worker 0 waits for the others and merges.
C3_OnStopOnceByMain ==
  \A s \in 1..MaxSearches :
    obs[s].launched =>
      /\ obs[s].stopBy \subseteq {mainThreadId}
      /\ obs[s].stop = (IF BeforeOnStop(s) THEN 0 ELSE 1)
\* onStop of a root-parallel search has run while another worker of the same
\* search is still iterating and the roots are not merged
C3_Witness ==
  \E s \in 1..MaxSearches :
    /\ obs[s].launched /\ obs[s].stop = 1 /\ obs[s].stopBy = {mainThreadId}
    /\ shouldMerge /\ ~merged /\ MainJoining(s) /\ OthersInLoop(s)

\* the goroutines between a successful CanExpand and the matching
\* FinishExpanding / CancelExpanding on node r
Expanders(r) == {g \in Gids : gor[g].pc \in {"expand", "finish"} /\ gor[g].node = r}
\* at most one goroutine at a time holds a node it claimed, and that node is Expanding
ExpandMutex ==
  \A g \in Gids :
    gor[g].pc \in {"expand", "finish"} =>
      /\ Cardinality(Expanders(gor[g].node)) = 1
      /\ tree[gor[g].node.t][gor[g].node.p].flags = ExpandingMask

\* C4: expansion is mutually exclusive and happens once: at most one
\* goroutine at a time is between a successful CanExpand and the matching
\* FinishExpanding / CancelExpanding of a node, and ExpandNode is never
\* invoked on a node whose flags are already Expanded.
C4_ExpandOnce ==
  ExpandMutex /\ \A c \in expandCalls : ~HasBit(c.flags, ExpandedMask)

\* C5: MakeMove and Reset change Root, Children, size or max depth only when
\* no goroutine of a search is still executing.
C5_NoChangeWhileSearching ==
  [][((MakeMoveActs \/ ResetActs)
        /\ <<tree, rootPos, size, maxdepth>>' # <<tree, rootPos, size, maxdepth>>)
      => \A g \in Gids : ~Executing(g)]_vars

\* C6: goroutines of two different SearchMultiThreaded calls never run at the
\* same time.
C6_OneSearchAtATime ==
  \A g, h \in Gids : (Executing(g) /\ Executing(h)) => gor[g].gen = gor[h].gen

\* C7: whenever no search goroutine is running and the host is between calls,
\* Synchronize returns.
C7_SynchronizeReturnsAtRest == Quiescent => SyncReady

\* C8: between calls of the host, IsSearching() is true exactly while
\* goroutines of a search are running.
C8_IsSearchingIffRunning ==
  (host.pc = "idle" /\ ~panicked) => (IsSearching(lim) <=> AnyLive)

\* C9: every node made with the Terminal flag has exactly that flag (it is
\* never Expanding or Expanded), and after Reset on a terminated position the
\* new root is Terminal and not Expanded.
C9_TerminalStaysTerminal ==
  /\ [](\A t \in TreeIds : \A p \in Pos :
          HasBit(tree[t][p].flags, TerminalMask) => tree[t][p].flags = TerminalMask)
  /\ [][(ResetReturns /\ IsTerminated(host.pos))
          => (Terminal(tree', Ref(Canon, rootPos')) /\ ~Expanded(tree', Ref(Canon, rootPos')))]_vars

\* C10: a SearchMultiThreaded call on a Terminal root launches no goroutine,
\* calls no ExpandNode, invokes onStop once and no other callback, and leaves
\* Cycles() = 0.
C10_TerminalRootSearch ==
  [][(searches' = searches + 1 /\ Terminal(tree, RootRef))
      => /\ gor' = gor /\ wg' = wg /\ expandCalls' = expandCalls /\ tree' = tree
         /\ obs'[searches'].stop = 1
         /\ obs'[searches'].depthBy = {} /\ obs'[searches'].cycleBy = {}
         /\ cycles' = 0]_vars

\* C11: when Reset returns, Cycles() = 0, MaxDepth() = 0 and Size() >= 1.
C11_ResetClearsCounters ==
  [][ResetReturns => (cycles' = 0 /\ maxdepth' = 0 /\ size' >= 1)]_vars

\* the step in which the main goroutine of a search returns (Synchronize can
\* return from then on)
SearchCompletes == \E g \in Gids : gor[g].pc \in {"should", "clear"} /\ gor'[g].pc = "idle"

\* C12 (as claimed): whenever a search with NThreads = 1 completes, on a fresh
\* tree or on one already searched or advanced, Cycles() = Root.Stats.N() and
\* Root.Stats.VirtualLoss() = 0.
C12_CyclesEqualRootVisits ==
  [][(SearchCompletes /\ limits.NThreads = 1)
      => (cycles' = tree'[Canon][rootPos'].n /\ tree'[Canon][rootPos'].vl = 0)]_vars

\* C12 (amended): whenever a search with NThreads = 1 on a freshly constructed
\* tree completes, Cycles() = Root.Stats.N() and Root.Stats.VirtualLoss() = 0.
C12_FreshSearchCycles ==
  [][(SearchCompletes /\ limits.NThreads = 1 /\ searches = 1 /\ moves = 0 /\ resets = 0)
      => (cycles' = tree'[Canon][rootPos'].n /\ tree'[Canon][rootPos'].vl = 0)]_vars
\* a first search with one thread has completed after at least two iterations
C12_Witness ==
  /\ limits.NThreads = 1 /\ searches = 1 /\ moves = 0 /\ resets = 0
  /\ obs[1].launched /\ ~AnyLive /\ cycles >= 2 /\ tree[Canon][rootPos].n = cycles

\* C13: whenever no search goroutine is running and the host is between
\* calls (after NewMTCS, Reset, MakeMove, a finished search and its merge),
\* Size() equals Count(), the number of nodes reachable from Root.
C13_SizeEqualsCount ==
  Quiescent => size = countTreeNodes(tree, RootRef)

\* C14: whatever the interleaving of the AddVvl calls of selection and
\* backpropagation, a pair (n, vl) that GetVvl returns has 0 <= vl <= n, so
\* that RealVisits() = n - vl is not negative
C14_GetVvlPairInRange ==
  ns.ret # <<>> => (0 <= ns.ret[2] /\ ns.ret[2] <= ns.ret[1] /\ ns.ret[1] - ns.ret[2] >= 0)
\* GetVvl went round its loop once and then returned a pair with virtual
\* loss on it while a thread was between the two additions of AddVvl
C14_Witness ==
  /\ ns.ret # <<>> /\ ns.ret[2] > 0 /\ ns.retried
  /\ \E c \in 1..StatCallers : ns.w[c].pc \in {"sel", "bp"}

\* C15: in every reachable state the scaled reward sum of a node is at most
\* 1000 times its visit count, RawQ() <= 1000 * N(), for rollout results in
\* [0, 1], with the default and with the RAVE backpropagation, under
\* concurrent workers
C15_QAtMostVisits ==
  ns.q <= 1000 * ns.n

\* C16: Backpropagate with rollout value v credits 1 - v to the leaf's q, v
\* to its parent's q, and so on alternating: the node k steps above the leaf
\* receives 1 - v for even k and v for odd k. Each step of the walk credits
\* the node it is at once, leaves the q of every other node alone, and goes
\* on to that node's parent, so every node of the path up to the root gets
\* exactly one credit and no other node gets any.
StepsAboveLeaf(g) == Len(gor[g].root.p) + gor[g].depth - Len(gor[g].node.p)
BackpropStep(g) == WAddQ(g)
CreditOf(g) == IF StepsAboveLeaf(g) % 2 = 0 THEN 1000 - gor[g].v ELSE gor[g].v
C16_ZeroSumAlternation ==
  [][\A g \in Gids : BackpropStep(g) =>
       LET x == gor[g].node IN
       /\ tree'[x.t][x.p].q = tree[x.t][x.p].q + CreditOf(g)
       /\ \A t \in TreeIds : \A p \in Pos : (t # x.t \/ p # x.p) => tree'[t][p].q = tree[t][p].q
       /\ IF tree[x.t][x.p].parent \in {"slot", "copy"}
            THEN gor'[g].node = Ref(x.t, Front(x.p)) /\ gor'[g].pc = "bp"
            ELSE gor'[g].pc = "count"]_vars
\* a walk of three nodes has credited v = 1 to the node one step above the
\* leaf and is at the root, two steps above the leaf
C16_Witness ==
  \E g \in Gids :
    /\ gor[g].pc = "bp" /\ gor[g].depth = 2 /\ gor[g].v = 1000
    /\ gor[g].node = gor[g].root /\ gor[g].result = 1000
    /\ \E i \in 1..Branch : tree[gor[g].root.t][gor[g].root.p \o <<i>>].q >= 1000

\* C17: one full iteration (Selection, Rollout, Backpropagate) leaves the
\* domain state of the worker where the search started it: Backpropagate
\* undoes exactly the moves Selection made, so whenever a worker is at the
\* head of its loop or past it, also in a search that follows MakeMove, its
\* operations object holds the position it held when the search began
C17_PositionRestored ==
  \A g \in Gids :
    gor[g].pc \in {"ok", "okload"} \cup ExitPcs \cup JoinPcs \cup MergePcs
      => gor[g].opos = gor[g].opos0

\* the bounds of the limits in force, as the caller configured them
Composite(lm) ==
  /\ ~lm.Infinite /\ lm.ByteSize # DefaultByteSizeLimit
  /\ (lm.Movetime # DefaultMovetimeLimit \/ lm.Cycles # DefaultCyclesLimit)
TimeReached == limits.Movetime # DefaultMovetimeLimit /\ lim.timer.since >= limits.Movetime
CyclesReached == limits.Cycles # DefaultCyclesLimit /\ lt.cycles >= limits.Cycles
DepthReached == lt.depth >= limits.Depth

\* C18: with ByteSize and at least one of Movetime and Cycles configured and
\* taken in by the Reset that begins a search, once the size given to the
\* limiter has reached the memory bound, Ok is
\* true as long as neither the time nor the cycle bound is reached (no stop
\* being requested and no depth bound reached), Expand() is false from then
\* on, and the stop reason evaluated at the end has the bit of every bound
\* of the two that is reached and never StopMemory
C18_MemoryDefersToTimeAndCycles ==
  (Composite(limits) /\ lt.taken) =>
    /\ (lt.op = "Ok" /\ HitsMemory(limits, lt.size) /\ ~TimeReached /\ ~CyclesReached
          /\ ~lim.stop /\ ~DepthReached) => lt.ok
    /\ lt.memHit => ~lim.expand
    /\ (lt.op = "Evaluate" /\ lt.memHit) =>
          /\ ~HasBit(lim.reason, StopMemory)
          /\ TimeReached => HasBit(lim.reason, StopMovetime)
          /\ CyclesReached => HasBit(lim.reason, StopCycles)

\* C19: with Nodes = N as the only bound, in a Limiter that was Reset with
\* it, Ok is false as soon as the node count given to the limiter is at least
\* N, and true below N
C19_NodesBoundStops ==
  (lt.op = "Ok" /\ lt.taken /\ limits = SetNodes(DefaultLimits, NodesLimit) /\ ~lim.stop)
    => (lt.ok <=> lt.size < limits.Nodes)

\* what C20 says of Ok: under infinite limits Ok does not look at the
\* counters, it is true exactly when no stop is pending (Stop() found the
\* stop flag set, or set it on finding the context cancelled), and it is
\* false only after SetStop(true) or the cancellation of an attached context
OkOnlyStopsOnRequest ==
  (limits.Infinite /\ lt.op = "Ok") => /\ lt.ok <=> ~lim.stop
                                       /\ ~lt.ok => lt.asked
\* C20 (as claimed): while Limits.Infinite is true, Ok is true for all counter
\* values and Expand() is true; Ok is false only after SetStop(true) or the
\* cancellation of the context; the default limits are infinite
C20_InfiniteStopsOnlyOnRequest ==
  /\ DefaultLimits.Infinite
  /\ OkOnlyStopsOnRequest
  /\ limits.Infinite => lim.expand
\* C20 (amended): the same, with Expand() true provided the limits have been
\* infinite since NewLimiter or the last Reset
C20_InfiniteSinceReset ==
  /\ DefaultLimits.Infinite
  /\ OkOnlyStopsOnRequest
  /\ (limits.Infinite /\ lt.infinite) => lim.expand
\* infinite limits that also carry a cycle and a memory bound, taken in by a
\* Reset: Ok was called with counters over both bounds and returned true,
\* and Expand() is still true
C20_Witness ==
  /\ limits.Infinite /\ limits.Cycles = CyclesLimit /\ limits.ByteSize = ByteSizeLimit
  /\ lt.taken /\ lt.infinite /\ lim.expand
  /\ lt.op = "Ok" /\ lt.ok /\ lt.cycles >= CyclesLimit /\ HitsMemory(limits, lt.size)

\* the reasons that are true when EvaluateStopReason runs, one by one
MemorySuppressed ==
  limits.Movetime # DefaultMovetimeLimit \/ limits.Cycles # DefaultCyclesLimit
BoundReasons ==
  (IF TimeReached THEN StopMovetime ELSE 0)
  + (IF DepthReached THEN StopDepth ELSE 0)
  + (IF CyclesReached THEN StopCycles ELSE 0)
  + (IF HitsMemory(limits, lt.size) /\ ~MemorySuppressed THEN StopMemory ELSE 0)
InterruptReason == IF lim.stop \/ ctx = "cancelled" THEN StopInterrupt ELSE 0

\* C21: the stop reason evaluated at the end of a search, whose setup Reset
\* the Limiter with the limits in force, is exactly the OR of the reasons
\* true at that check: Interrupt iff the stop flag is set or the context is
\* cancelled, Movetime iff the deadline has passed, Depth iff depth >=
\* Limits.Depth, Cycles iff cycles >= Limits.Cycles, Memory iff size >= the
\* memory bound and the composite policy does not suppress it.  The claim is
\* read with the rule that while Limits.Infinite is true the numeric limits
\* are ignored and only Interrupt applies.
C21_ReasonIsOrOfTrueReasons ==
  (lt.op = "Evaluate" /\ lt.taken) =>
    lim.reason = InterruptReason + (IF limits.Infinite THEN 0 ELSE BoundReasons)
\* the step in which MakeMove, having found the child, swings Root to it
MoveMade == Len(rootPos') = Len(rootPos) + 1
\* the new root is detached and its subtree is as it was
SubtreeKept(np) ==
  /\ tree'[Canon][np] = [tree[Canon][np] EXCEPT !.parent = "nil"]
  /\ \A p \in Pos : IsPrefix(np, p) /\ p # np => tree'[Canon][p] = tree[Canon][p]

\* C22: MakeMove(m) with a child c of Root carrying m makes c the Root with
\* Parent nil and its subtree and statistics as they were, stores in Size the
\* number of nodes of c's subtree and in MaxDepth max(0, MaxDepth - 1), and
\* calls ops.Traverse(m) once; when the depth reached was at least 1, both
\* MaxDepth and Size become strictly smaller
C22_MakeMovePromotesChild ==
  [][/\ MoveMade =>
          /\ host.move \in 1..tree[Canon][rootPos].kids
          /\ rootPos' = Append(rootPos, host.move)
     /\ MakeMoveSize =>
          /\ size' = countTreeNodes(tree', Ref(Canon, rootPos'))
          /\ maxdepth >= 1 => size' < size
     /\ MakeMoveDepth =>
          /\ maxdepth' = Max(0, maxdepth - 1)
          /\ maxdepth >= 1 => maxdepth' < maxdepth
     /\ (MakeMoveActs /\ opsPos' # opsPos) =>
          (MakeMoveTraverse /\ opsPos' = Traverse(opsPos, host.move))
     /\ MakeMoveParent => SubtreeKept(rootPos)
     /\ MakeMoveTail =>
          \A p \in Pos : IsPrefix(rootPos, p) => tree'[Canon][p] = tree[Canon][p]]_vars
\* a step of MakeMove(m) when no child of Root carries m
MoveMissing(m) == m > tree[Canon][rootPos].kids
MissingMoveStep == MakeMoveFind /\ MoveMissing(host.move)
MakeMoveFrame ==
  [][MissingMoveStep =>
       /\ UNCHANGED <<tree, rootPos, opsPos, size, maxdepth>>
       /\ host'.pc = "idle"]_vars
\* the call is past its join, or waits for goroutines that are still running
MakeMoveReturns == (host.pc = "mm_sync" /\ ~AnyLive) => SyncReady

\* C23: MakeMove(m) when no child of Root has move m (or Root has no children)
\* returns, and leaves Root, every node's statistics, flags and children, Size,
\* MaxDepth and the position of the operations object as they were
C23_MissingMoveIsNoOp == MakeMoveFrame /\ []MakeMoveReturns
\* the step of worker 0 in which mergeResults begins
MergeStarts == \E g \in Gids : WMergeRange(g)
\* SearchMultiThreaded has not started all its workers
Launching ==
  host.pc \in {"ss_cycles", "ss_depth", "ss_merged", "ss_expand", "ss_make", "ss_range", "ss_fill",
              "ss_clone", "ss_store", "ss_range2", "ss_add", "ss_go"}
\* goroutine g adds to a field of a node of the canonical tree in mergeResult
MergeAdds(g, pc) == WMergeStats(g) /\ Head(gor[g].mg.st).pc = pc
\* the step adds to field f of the node what the per-worker node holds in f
AddsOthers(g, f) ==
  LET fr == Head(gor[g].mg.st)
  IN tree'[fr.root.t][fr.root.p][f] = tree[fr.root.t][fr.root.p][f] + tree[fr.other.t][fr.other.p][f]
\* mergeResult goes down to the children that stand at equal child counts
MergeDescends(g) ==
  LET fr == Head(gor[g].mg.st)
  IN (WMergeLens(g) /\ fr.pc = "rlen"
        /\ tree[fr.root.t][fr.root.p].kids = tree[fr.other.t][fr.other.p].kids
        /\ tree[fr.root.t][fr.root.p].kids > 0)
       => Head(gor'[g].mg.st).pc = "child"

\* C24: in a root-parallel search with several workers the merge runs only
\* after every worker was started and has left its loop; to the canonical
\* Root, and to every node below it reached through equal child counts, it adds
\* the n, vl and q of the node of each per-worker tree, so that they hold the
\* sums over the per-worker trees; merged becomes true only at its end
C24_MergeSumsWorkerRoots ==
  /\ [][MergeStarts =>
          (~Launching /\ \A g \in Gids : ~InLoop(g) /\ gor[g].pc \notin ExitPcs)]_vars
  /\ [][\A g \in Gids :
          /\ MergeAdds(g, "addvl") => AddsOthers(g, "vl")
          /\ MergeAdds(g, "addn") => AddsOthers(g, "n")
          /\ MergeAdds(g, "addq") => AddsOthers(g, "q")
          /\ MergeDescends(g)]_vars
  /\ [][(merged' /\ ~merged) => \E g \in Gids : WMerged(g)]_vars
\* p is the root rp of the tree T or a node reached from it through Children
InTree(T, rp, p) ==
  /\ IsPrefix(rp, p)
  /\ \A k \in (Len(rp) + 1)..Len(p) : p[k] <= T[SubSeq(p, 1, k - 1)].kids
\* the tree Root.Clone(nil) has returned in this step of SearchMultiThreaded
ClonedNow == IF SearchFillClone /\ roots' # roots THEN {host.arena} ELSE {}

\* C25: the tree made by NodeBase.Clone equals the original node by node
\* (move, flags, n, q, number of children), and the Parent of every node in a
\* cloned node's Children is that cloned node, at every depth
C25_CloneEqualWithOwnParents ==
  [][\A t \in ClonedNow : \A p \in Pos :
       InTree(tree'[Canon], rootPos, p) =>
         /\ \A f \in {"flags", "n", "q", "kids"} : tree'[t][p][f] = tree'[Canon][p][f]
         /\ p # rootPos => tree'[t][p].parent = "slot"]_vars
\* the step in which a call of Select by goroutine g on an Expanded parent
\* without the Terminal flag ends: it returns, or it panics
SelectStep(g) ==
  /\ WSelectN(g) \/ WSelectLoss(g)
  /\ panicked' \/ gor'[g].pc = "vl"
\* the children of r that no completed iteration has visited
Unvisited(T, r) ==
  {i \in 1..T[r.t][r.p].kids : T[r.t][Append(r.p, i)].n - T[r.t][Append(r.p, i)].vl = 0}
\* goroutine g is the only goroutine of a search, and the host is between calls
Alone(g) == host.pc = "idle" /\ \A h \in Gids \ {g} : ~Live(h)
\* no iteration of another goroutine went through the parent while the call
\* of Select by g ran: no other goroutine is running, and the parent's n is
\* still the N the call loaded first (every iteration through a node adds to
\* its n)
Undisturbed(g) ==
  /\ Alone(g)
  /\ gor[g].args[1] = tree[gor[g].node.t][gor[g].node.p].n

\* C26: Select on an Expanded parent that is not Terminal returns one of the
\* parent's children, and (no other iteration having gone through the parent
\* during the call) the lowest-index child with real visits 0 whenever there
\* is one
C26_SelectPrefersUnvisited ==
  [][\A g \in Gids : SelectStep(g) =>
       LET r == gor[g].node
       IN /\ \E i \in 1..tree[r.t][r.p].kids : gor'[g].node = Child(r, i)
          /\ Undisturbed(g) =>
               \A i \in Unvisited(tree, r) :
                 (\A j \in Unvisited(tree, r) : i <= j) => gor'[g].node = Child(r, i)]_vars
\* ------------------------------------------------------ BestChild, BestMove
\* BestChild(node, policy): the scan over node.Children; best is the index of
\* bestChild, 0 for nil
BestChildMostVisits == 0
BestChildWinRate == 1
BestChildPolicies == {BestChildMostVisits, BestChildWinRate}
\* case BestChildMostVisits
RECURSIVE BestChildLatest(_, _, _, _, _)
BestChildLatest(T, r, i, best, maxVisits) ==
  IF i > T[r.t][r.p].kids THEN best
  ELSE LET v == RealVisits(T, Child(r, i))
       IN IF v >= maxVisits /\ v > 0
            THEN BestChildLatest(T, r, i + 1, i, v)
            ELSE BestChildLatest(T, r, i + 1, best, maxVisits)
RECURSIVE BestChildScan(_, _, _, _, _)
BestChildScan(T, r, i, best, maxVisits) ==
  IF i > T[r.t][r.p].kids THEN best
  ELSE LET v == RealVisits(T, Child(r, i))
       IN IF v > maxVisits /\ v > 0
            THEN BestChildScan(T, r, i + 1, i, v)
            ELSE BestChildScan(T, r, i + 1, best, maxVisits)
\* case BestChildWinRate: the greatest N() of the children, then the first
\* child of greatest float64(Q()) / float64(N()) among those with more real
\* visits than both thresholds; bestWinRate starts at -1.0
minVisitsPercentageThreshold == 0
minVisitsThreshold == 10
RECURSIVE MaxVisitsScan(_, _, _, _)
MaxVisitsScan(T, r, i, maxVisits) ==
  IF i > T[r.t][r.p].kids THEN maxVisits
  ELSE IF T[r.t][Append(r.p, i)].n > maxVisits
         THEN MaxVisitsScan(T, r, i + 1, T[r.t][Append(r.p, i)].n)
         ELSE MaxVisitsScan(T, r, i + 1, maxVisits)
PercentageOf(maxVisits) ==
  Int32(F64Mul(Float64(minVisitsPercentageThreshold), Float64(maxVisits)))
WinRate(T, r) == F64Quo(Q(T[r.t][r.p].q), Float64(T[r.t][r.p].n))
RECURSIVE WinRateScan(_, _, _, _, _, _)
WinRateScan(T, r, i, best, bestWinRate, maxVisits) ==
  IF i > T[r.t][r.p].kids THEN best
  ELSE IF /\ RealVisits(T, Child(r, i)) > minVisitsThreshold
          /\ RealVisits(T, Child(r, i)) > PercentageOf(maxVisits)
          /\ F64Greater(WinRate(T, Child(r, i)), bestWinRate)
         THEN WinRateScan(T, r, i + 1, i, WinRate(T, Child(r, i)), maxVisits)
         ELSE WinRateScan(T, r, i + 1, best, bestWinRate, maxVisits)
BestChild(T, r, pol) ==
  IF pol = BestChildMostVisits THEN BestChildScan(T, r, 1, 0, 0)
  ELSE IF pol = BestChildWinRate
         THEN WinRateScan(T, r, 1, 0, Float64(0 - 1), MaxVisitsScan(T, r, 1, 0))
  ELSE 0
\* the zero value of the move type ("var signature T"); the move of the
\* i-th child is i.  BestMove asks for BestChildMostVisits.
ZeroMove == 0
BestMove(T, r) ==
  IF BestChild(T, r, BestChildMostVisits) # 0 THEN BestChild(T, r, BestChildMostVisits)
  ELSE ZeroMove

\* a search has finished: no goroutine runs, the host is between calls, and
\* the non-terminal Root has children, all with readable statistics
AfterSearch ==
  /\ Quiescent /\ searches >= 1
  /\ ~Terminal(tree, RootRef) /\ tree[Canon][rootPos].kids >= 1
  /\ \A i \in 1..tree[Canon][rootPos].kids : VvlReadable(tree, Child(RootRef, i))
\* i is the child of Root with the most real visits, the lowest index on ties
MostVisited(i) ==
  \A j \in 1..tree[Canon][rootPos].kids :
    \/ RealVisits(tree, Child(RootRef, i)) > RealVisits(tree, Child(RootRef, j))
    \/ RealVisits(tree, Child(RootRef, i)) = RealVisits(tree, Child(RootRef, j)) /\ i <= j
SomeVisited == \E i \in 1..tree[Canon][rootPos].kids : RealVisits(tree, Child(RootRef, i)) > 0

\* C27 (as claimed): after any finished search on a non-terminal Root with a
\* child, BestMove() is the move of the child of Root with the most real
\* visits, the lowest index on ties
C27_BestMoveIsMostVisited ==
  AfterSearch =>
    /\ BestMove(tree, RootRef) \in 1..tree[Canon][rootPos].kids
    /\ MostVisited(BestMove(tree, RootRef))
\* C27 (amended): the same when some child of Root has real visits; when none
\* has, BestMove() is the zero value of the move type
C27_BestMoveIsMostVisitedIfAny ==
  AfterSearch =>
    IF SomeVisited
      THEN /\ BestMove(tree, RootRef) \in 1..tree[Canon][rootPos].kids
           /\ MostVisited(BestMove(tree, RootRef))
      ELSE BestMove(tree, RootRef) = ZeroMove
C27_Witness ==
  /\ AfterSearch /\ tree[Canon][rootPos].kids = 2
  /\ RealVisits(tree, Child(RootRef, 1)) = RealVisits(tree, Child(RootRef, 2))
  /\ RealVisits(tree, Child(RootRef, 1)) > 0
  /\ BestMove(tree, RootRef) = 1
\* ------------------------------------------------------------- PvNodes, Pv
\* PvNodes: the loop "for len(node.Children) > 0" with BestChild(node,
\* policy); end is the node the descent stopped at
RECURSIVE PvDescent(_, _, _, _)
PvDescent(T, r, pol, pv) ==
  IF T[r.t][r.p].kids = 0 THEN [pv |-> pv, mate |-> FALSE, end |-> r]
  ELSE LET b == BestChild(T, r, pol)
       IN IF b = 0 THEN [pv |-> pv, mate |-> FALSE, end |-> r]
          ELSE IF Terminal(T, Child(r, b))
                 THEN [pv |-> Append(pv, Child(r, b)), mate |-> TRUE, end |-> Child(r, b)]
                 ELSE PvDescent(T, Child(r, b), pol, Append(pv, Child(r, b)))
PvNodes(T, r, pol, includeRoot) ==
  LET pv == IF includeRoot THEN <<r>> ELSE <<>>
  IN IF T[r.t][r.p].kids = 0
       THEN [pv |-> pv, mate |-> Terminal(T, r), end |-> r]
       ELSE PvDescent(T, r, pol, pv)
\* NodeStats.AvgQ(): Result(q) / 1e3 / Result(N())
AvgQ(T, r) == Exploit(T[r.t][r.p].q, T[r.t][r.p].n)
\* the average of q / 1000 over the visits is one half
AvgQIsHalf(T, r) == T[r.t][r.p].n > 0 /\ 2 * T[r.t][r.p].q = 1000 * T[r.t][r.p].n
\* Pv: the moves of PvNodes, mate, and mate && node.Stats.AvgQ() == 0.5 where
\* node is the last node of the list, nil when the list is empty; fault tells
\* that nil is dereferenced
Pv(T, r, pol, includeRoot) ==
  LET res == PvNodes(T, r, pol, includeRoot)
      node == IF Len(res.pv) = 0 THEN NilRef ELSE res.pv[Len(res.pv)]
      MoveOf(x) == IF Len(x.p) = 0 THEN ZeroMove ELSE x.p[Len(x.p)]
  IN [pv |-> [k \in 1..Len(res.pv) |-> MoveOf(res.pv[k])],
      mate |-> res.mate,
      fault |-> res.mate /\ node = NilRef,
      draw |-> res.mate /\ node # NilRef /\ F64Equal(AvgQ(T, node), F64Half),
      end |-> res.end]

\* the nodes of the tree under Root, none with a statistics read that blocks
PvInputs == {p \in Pos : Reachable(p)}
PvReadable == \A p \in PvInputs : VvlReadable(tree, Ref(Canon, p))

\* C28: Pv(node, policy, includeRoot) returns without faulting for every node
\* and both values of includeRoot; mate is true iff the descent ended on a node
\* with the Terminal flag, and draw iff mate and that node's average q is 0.5
C28_PvNeverFaults ==
  (Quiescent /\ PvReadable) =>
    \A p \in PvInputs : \A pol \in BestChildPolicies : \A includeRoot \in BOOLEAN :
      LET x == Pv(tree, Ref(Canon, p), pol, includeRoot)
      IN /\ ~x.fault
         /\ x.mate <=> Terminal(tree, x.end)
         /\ x.draw <=> (x.mate /\ AvgQIsHalf(tree, x.end))
\* C29: the cycle interval of the tree's listener is at least 1 in every
\* state, so the on-cycle check of the search loop never divides by zero
C29_CycleIntervalPositive == ls.listener.nCycles >= 1 /\ ~ls.fault
\* C30: onCycle and onDepth are invoked by worker 0 only, in every search
C30_CallbacksOnMainThreadOnly ==
  \A s \in 1..MaxSearches :
    obs[s].depthBy \subseteq {mainThreadId} /\ obs[s].cycleBy \subseteq {mainThreadId}
\* goroutine g, having won the compare-and-swap on maxdepth, stores its depth
\* and invokes onDepth
DepthEvent(g) == WStore(g) /\ gor[g].depth > 1

\* C31: while a goroutine of a search is running MaxDepth never decreases, and
\* onDepth is invoked only for a depth strictly above every depth it was
\* invoked for before in that search
C31_MaxDepthMonotone ==
  [][/\ (\E g \in Gids : Executing(g)) => maxdepth' >= maxdepth
     /\ \A g \in Gids : DepthEvent(g) => gor[g].depth > obs[gor[g].gen].depthTop]_vars
\* worker 0 finishes an iteration with an onCycle callback registered under a
\* positive interval
CycleTest(g) ==
  WCount(g) /\ gor[g].tid = mainThreadId /\ ls.listener.onCycle /\ ls.listener.nCycles >= 1
\* and invokes onCycle
CycleEvent(g) == CycleTest(g) /\ OnCycleDue(tree, rootPos)

\* C32: worker 0 invokes onCycle after an iteration exactly when Cycles() is a
\* multiple of the cycle interval, and the Cycles value the callback receives
\* equals Cycles()
C32_OnCycleOnCounter ==
  [][\A g \in Gids :
       CycleTest(g) =>
         /\ CycleEvent(g) <=> (cycles' % ls.listener.nCycles = 0)
         /\ CycleEvent(g) => ListenerCycles(tree', rootPos') = cycles']_vars
\* C33: in a search with ByteSize and Movetime set that starts below the
\* memory bound, Size() never exceeds (memory bound in nodes - 1) plus the
\* largest child count of one ExpandNode call
C33_OneExpansionStraddles ==
  size <= (MemoryBound(limits) - 1) + MaxChildren
\* the nodes a search can walk: those under Root and under every per-worker root
Walkable ==
  {Ref(Canon, p) : p \in {q \in Pos : Reachable(q)}}
    \cup UNION {{Ref(roots[i].t, p) :
                   p \in {q \in Pos : InTree(tree[roots[i].t], roots[i].p, q)}} :
                i \in {j \in 1..Len(roots) : roots[j] # NilRef}}

\* Reset has marked its new root Expanded and not yet called ExpandNode on it
ResetExpanding == host.pc = "rs_expand"
\* MakeMove has swung Root to the child and not yet cleared its Parent
MakeMoveDetaching ==
  host.pc \in {"mm_count", "mm_size", "mm_load", "mm_depth", "mm_ops", "mm_parent"}

\* C34: every node under Root or under a per-worker root whose flags are
\* Expanded has at least one child, in every state but those inside Reset
\* between FinishExpanding and ExpandNode
C34_ExpandedHasChildren ==
  ~ResetExpanding => \A r \in Walkable : Expanded(tree, r) => tree[r.t][r.p].kids >= 1
\* C35: Root has no Parent, and the Parent of every other node reachable from
\* Root is the node whose Children holds it, in every state but those inside
\* MakeMove between the assignment of Root and newRoot.Parent = nil
C35_ParentsLeadToRoot ==
  ~MakeMoveDetaching =>
    \A p \in Pos : Reachable(p) =>
      tree[Canon][p].parent = (IF p = rootPos THEN "nil" ELSE "slot")
\* C36: the pair GetVvl returns gives a RealVisits() that is not below the
\* visits the node had completed when the call began (the completed visits
\* only grow during the call: every step but a panicking SetVvl keeps or
\* raises them)
C36_RealVisitsNotBelowCompleted ==
  (ns.rd.pc = "cmp" /\ GetVvlAccepts(ns.rd.visits, ns.rd.virtualLoss))
    => ns.rd.visits - ns.rd.virtualLoss >= ns.rd.done
\* C37: in a state in which Synchronize returns to the host, no goroutine of a
\* search is left: none is in its loop, in its exit code, in wg.Wait() or in
\* mergeResults
C37_SynchronizeMeansWorkersGone ==
  (host.pc = "idle" /\ ~panicked /\ SyncReady) => ~AnyLive
\* a goroutine of search s has seen Limiter.Ok() false and left its loop
StoppedInSearch(s) ==
  \E g \in Gids : gor[g].gen = s /\ gor[g].pc \in ExitPcs \cup JoinPcs \cup MergePcs

\* C38: once a goroutine of a search has left its loop, every Ok check of a
\* goroutine of the same search sends it out of the loop too, and the stop
\* reason worker 0 evaluates is not StopNone
C38_StopConditionStable ==
  [][/\ \A h \in Gids :
          ((WOk(h) \/ WOkLoad(h)) /\ StoppedInSearch(gor[h].gen)) => gor'[h].pc # "sel"
     /\ \A g \in Gids : WReason(g) => lim'.reason # StopNone]_vars
\* C39: when a Selection that ended at depth d has set the max depth,
\* MaxDepth() is at least d
C39_MaxDepthCoversSelection ==
  [][\A g \in Gids :
       ((WDepth(g) \/ WStore(g)) /\ gor'[g].pc # "store") => maxdepth' >= gor[g].depth]_vars
\* the last goroutine of a search returns: from here on Synchronize finds the
\* search over
SearchEnds(g) == Live(g) /\ ~AnyLive'

\* C40: when a search is over, Root.Stats.N() has grown since the
\* SearchMultiThreaded call by exactly Cycles()
C40_RootCountsEveryIteration ==
  [][\A g \in Gids : SearchEnds(g) =>
       tree'[Canon][rootPos'].n - obs'[gor[g].gen].rootN = cycles']_vars
====
